---- MODULE Spec2Model ----
(***************************************************************************)
(* Model of the chat Controller of task-breaker (src/chat/controller.go)   *)
(* together with the completion capability of the two backends of           *)
(* src/backends/mock/mock.go.                                               *)
(*                                                                          *)
(* A Conversation is a heap object (the code hands out *Conversation);      *)
(* the controller's map goes from ConversationID to such an object.  The    *)
(* controller's sync.RWMutex is the pair (writer, readers).                 *)
(* SendMessage is split where the code takes or releases the mutex and      *)
(* where it calls the backend; an operation that holds the mutex from its   *)
(* first statement to its deferred Unlock is one step, enabled when the     *)
(* mutex can be taken.  Two goroutines each make one SendMessage call; the  *)
(* other operations are made by any number of further goroutines.           *)
(***************************************************************************)
EXTENDS Integers, Sequences, FiniteSets, TLC

\* ------------------------------------------------------------------ bounds
\* number of Conversation objects ever allocated, in the dispatch specification
MaxConvs == 1
\* number of Conversation objects ever allocated, in the store specification
StoreConvs == 3
\* number of Conversation objects ever allocated, in the coarse-clock store specification
CoarseConvs == 4
\* number of Conversation objects ever allocated, in the single-caller specification
TurnConvs == 1
\* the messages each goroutine of the concurrent test sends in its own conversation
SendsEach == 2
\* largest clock reading, in the store and the single-caller specification
MaxClock == 1

\* the goroutines that call SendMessage, one call each
Procs == {1, 2}
\* the readings of a clock that ticks
Clock == 0..MaxClock
\* the readings of a clock too coarse to tick while the model runs
CoarseClock == {0}

\* ------------------------------------------------------- values of the code
\* the zero value of the mutex: no goroutine holds it; also a goroutine that is no caller
NoProc == 0
\* var conversation *Conversation: nil
NoConv == 0
NoErr == "nil"
NoID == ""

SystemPrompts == {"", "You are helpful"}
UserTexts == {"Hello"}
InvalidID == "invalid-conversation-id"
Backends == {"MockAI", "OpenAI"}
CtxStates == {"live", "canceled", "deadline"}
\* an ai.Backend interface value whose two words come from different writes
Torn == "torn"

\* an ai.Message; call is history: the SendMessage call that appended it (0: none)
Message(role, content, call) == [Role |-> role, Content |-> content, call |-> call]

NoMessage == Message("", "", 0)

\* a *int or *float64 of a ChatRequest: nil is <<>>, a pointer to v is <<v>>
NilPtr == <<>>
PtrTo(v) == <<v>>

NoRequest == [ConversationID |-> NoID, Message |-> "", SystemPrompt |-> "",
              Model |-> "", MaxTokens |-> NilPtr, Temperature |-> NilPtr]

\* the ControllerConfig NewController uses when config == nil (temperatures in tenths)
DefaultConfig == [DefaultModel |-> "gpt-4", MaxTokens |-> 500, Temperature |-> 7]
\* a &ControllerConfig{} with every field at its zero value
ZeroConfig == [DefaultModel |-> "", MaxTokens |-> 0, Temperature |-> 0]
\* the configurations NewController is given in the parameter specification
Configs == {DefaultConfig, ZeroConfig}

\* a *ai.ChatCompletionResponse: nil, or the choices it carries
NoResponse == [nil |-> TRUE, Choices |-> <<>>]

\* the zero value of ai.Usage
NoUsage == [PromptTokens |-> 0, CompletionTokens |-> 0, TotalTokens |-> 0]

\* what a ChatCompletion returns on an error path: return nil, err
Failure(e) == [nil |-> TRUE, err |-> e, Choices |-> <<>>, Usage |-> NoUsage]

\* what a ChatCompletion returns otherwise: the response with its choices and usage, nil
Completion(choices, usage) ==
  [nil |-> FALSE, err |-> NoErr, Choices |-> choices, Usage |-> usage]

\* the goroutine that calls GetConversationSummary
Summarizer == 3

\* a (*ConversationSummary, error) pair not yet returned
NoSummaryResult == [nil |-> TRUE, err |-> NoErr]

\* no GetConversationSummary call is under way
NoSummary ==
  [pc |-> "idle", id |-> NoID, conversation |-> NoConv, result |-> NoSummaryResult]

\* a (*ChatResponse, error) pair; nil says the *ChatResponse is nil
NoResult == [nil |-> TRUE, ConversationID |-> NoID, Message |-> NoMessage,
             Response |-> NoResponse, Error |-> "", err |-> NoErr]

VARIABLES
  backend,        \* Controller.backend
  conversations,  \* Controller.conversations: ConversationID -> heap address
  heap,           \* the Conversation objects, in allocation order
  writer,         \* Controller.mutex: the goroutine holding Lock, or NoProc
  readers,        \* Controller.mutex: the goroutines holding RLock
  now,            \* the last monotonic clock reading handed out
  pc,             \* where each SendMessage call is
  req,            \* SendMessage: request
  ctx,            \* SendMessage: state of the caller's context
  conv,           \* SendMessage: conversation (heap address)
  snapshot,       \* SendMessage: messagesCopy
  bref,           \* SendMessage: the backend the completion call runs on
  response,       \* SendMessage: response, the backend's completion
  err,            \* SendMessage: err, the backend's error
  result,         \* SendMessage: the returned (*ChatResponse, error)
  startMsgs,      \* history: the conversation's messages when the call resolved it
  touched,        \* history: another goroutine changed the call's conversation
  cleared,        \* history: ClearConversation ran on the call's conversation
  deleted,        \* history: ids on which DeleteConversation succeeded
  burst,          \* history: conversations created since the last successful delete
  raced,          \* the values c.backend has held since the call's last Unlock
  sent,           \* history: the SendMessage calls of each goroutine that have returned
  calls,          \* history: the ChatCompletion invocations of each call in progress
  reachable,      \* environment: the remote provider answers on the network
  config,         \* Controller.defaultModel, maxTokens, temperature
  summary         \* GetConversationSummary: where the call is, id, conversation, result

vars == <<backend, conversations, heap, writer, readers, now, pc, req, ctx, conv,
          snapshot, bref, response, err, result, startMsgs, touched, cleared, deleted,
          burst, raced, sent, calls, reachable, config, summary>>

locals == <<req, ctx, conv, snapshot, bref, response, err, result>>

\* ---------------------------------------------------------------- callers
\* p can start its call; goroutines have no identity, so of those that have not
\* called yet the lowest one calls next
Free(p) == pc[p] = "idle" /\ \A q \in Procs : q < p => pc[q] # "idle"

\* ------------------------------------------------------------------ mutex
\* variant: Lock does not wait for the holders of RLock
LockFree_PastReaders == writer = NoProc

LockFree == writer = NoProc /\ readers = {}

CanRLock == writer = NoProc

\* --------------------------------------------------------------- helpers
\* fmt.Sprintf("conv_%d_%d", time.Now().UnixNano(), len(c.conversations))
FormatID(nano, n) == "conv_" \o ToString(nano) \o "_" \o ToString(n)

\* variant: the system message is added whatever the prompt
NewConversation_AlwaysSeed(id, systemPrompt, created, updated) ==
  [ID |-> id,
   Messages |-> <<Message("system", systemPrompt, 0)>>,
   CreatedAt |-> created,
   UpdatedAt |-> updated]

\* the Conversation object built by CreateConversation
NewConversation(id, systemPrompt, created, updated) ==
  [ID |-> id,
   Messages |-> IF systemPrompt # "" THEN <<Message("system", systemPrompt, 0)>> ELSE <<>>,
   CreatedAt |-> created,
   UpdatedAt |-> updated]

\* c.conversations[id] = conversation
MapPut(m, id, h) == [i \in DOMAIN m \cup {id} |-> IF i = id THEN h ELSE m[i]]

\* variant: the delete empties the whole map
MapDelete_All(m, id) == <<>>

\* delete(c.conversations, id)
MapDelete(m, id) == [i \in DOMAIN m \ {id} |-> m[i]]

\* variant: the append stamps the conversation with the zero time
AppendMessage_ZeroTime(hp, h, m, t) ==
  [hp EXCEPT ![h].Messages = Append(@, m), ![h].UpdatedAt = 0]

\* variant: the append writes over the last message of a log that has one
AppendMessage_Overwrite(hp, h, m, t) ==
  [hp EXCEPT ![h].Messages = IF @ = <<>> THEN <<m>> ELSE [@ EXCEPT ![Len(@)] = m],
             ![h].UpdatedAt = t]

\* variant: the message is put in front of the log instead of behind it
AppendMessage_Prepend(hp, h, m, t) ==
  [hp EXCEPT ![h].Messages = <<m>> \o @, ![h].UpdatedAt = t]

\* conversation.Messages = append(conversation.Messages, m); conversation.UpdatedAt = t
AppendMessage(hp, h, m, t) ==
  [hp EXCEPT ![h].Messages = Append(@, m), ![h].UpdatedAt = t]

\* variant: the clear skips the first message of the log and filters the rest
SystemMessages_SkipFirst(msgs) ==
  IF msgs = <<>> THEN <<>>
  ELSE SelectSeq(Tail(msgs), LAMBDA m : m.Role = "system")

\* variant: the clear keeps no message at all
SystemMessages_None(msgs) == <<>>

RECURSIVE SystemMessages(_)
\* the loop of ClearConversation that keeps the system messages
SystemMessages(msgs) ==
  IF msgs = <<>> THEN <<>>
  ELSE IF Head(msgs).Role = "system"
       THEN <<Head(msgs)>> \o SystemMessages(Tail(msgs))
       ELSE SystemMessages(Tail(msgs))

\* goroutine q changes heap object h: the other calls in flight on h are no longer alone
Touch(q, h) ==
  [p \in Procs |-> touched[p] \/ (p # q /\ conv[p] = h)]

\* the record of the messages at the start of a call is kept only while the call is alone
KeepStart(q, h) ==
  [p \in Procs |-> IF Touch(q, h)[p] THEN <<>> ELSE startMsgs[p]]

\* ids a caller may pass: present ones, deleted ones, and one that never existed
KnownIDs == DOMAIN conversations \cup deleted \cup {InvalidID}

\* ---------------------------------------------------------------- backends
\* ctx.Err()
CtxErr(c) == IF c = "canceled" THEN "context canceled" ELSE "context deadline exceeded"

\* MockBackend.ChatCompletion: the content derived from the last message of the request
MockReply(msgs) ==
  IF Len(msgs) > 0
  THEN "Mock AI (OpenAI format) received: '" \o msgs[Len(msgs)].Content
       \o "'. This is a simulated response using Chat Completions API!"
  ELSE "Mock AI: Hello! I'm responding via the OpenAI Chat Completions format."

RECURSIVE PromptTokens(_)
\* promptTokens += len(msg.Content) / 4 over the messages of the request
PromptTokens(msgs) ==
  IF msgs = <<>> THEN 0
  ELSE (Len(Head(msgs).Content) \div 4) + PromptTokens(Tail(msgs))

\* the ai.Usage MockBackend.ChatCompletion reports
MockUsage(msgs) ==
  LET promptTokens == PromptTokens(msgs)
      completionTokens == Len(MockReply(msgs)) \div 4
      totalTokens == promptTokens + completionTokens
  IN [PromptTokens |-> promptTokens, CompletionTokens |-> completionTokens,
      TotalTokens |-> totalTokens]

\* variant: a MockBackend that does not select on ctx.Done()
MockChatCompletion_Deaf(c, r) ==
  {Completion(<<Message("assistant", MockReply(r.Messages), 0)>>, MockUsage(r.Messages))}

\* MockBackend.ChatCompletion: the select on ctx.Done(), then one assistant choice
MockChatCompletion(c, r) ==
  IF c # "live"
  THEN {Failure(CtxErr(c))}
  ELSE {Completion(<<Message("assistant", MockReply(r.Messages), 0)>>,
                   MockUsage(r.Messages))}

\* the choice lists a remote provider may send back
OpenAIChoices ==
  {<<>>, <<Message("assistant", "first", 0), Message("assistant", "second", 0)>>}

\* OpenAIBackend.ChatCompletion: validation, the HTTP exchange bound to ctx, the parsed
\* body (of the usage the provider reports only the zero value is modelled)
OpenAIChatCompletion(c, r) ==
  IF r.Model = ""
  THEN {Failure("model is required")}
  ELSE IF Len(r.Messages) = 0
       THEN {Failure("messages are required")}
       ELSE IF c # "live"
            THEN {Failure("failed to send request: " \o CtxErr(c))}
            ELSE IF ~reachable
                 THEN {Failure("failed to send request: connection refused")}
                 ELSE {Failure("OpenAI API error")}
                      \cup {Completion(ch, NoUsage) : ch \in OpenAIChoices}

\* backend.ChatCompletion(ctx, aiRequest), dispatched on the backend's variant; on an
\* interface value of mixed words the method of either variant runs
ChatCompletion(b, c, r) ==
  IF b = "MockAI" THEN MockChatCompletion(c, r)
  ELSE IF b = "OpenAI" THEN OpenAIChatCompletion(c, r)
  ELSE MockChatCompletion(c, r) \cup OpenAIChatCompletion(c, r)

\* backend.IsAvailable(ctx): the mock always, the provider when GET /models answers 200
IsAvailable(b, c) ==
  IF b = "MockAI" THEN TRUE ELSE c = "live" /\ reachable

\* ------------------------------------------------------------------- Init
\* NewController(backend, config)
NewController(configs) ==
  /\ backend \in Backends
  /\ conversations = <<>>
  /\ heap = <<>>
  /\ writer = NoProc
  /\ readers = {}
  /\ now = 0
  /\ pc = [p \in Procs |-> "idle"]
  /\ req = [p \in Procs |-> NoRequest]
  /\ ctx = [p \in Procs |-> "live"]
  /\ conv = [p \in Procs |-> NoConv]
  /\ snapshot = [p \in Procs |-> <<>>]
  /\ bref = [p \in Procs |-> ""]
  /\ response = [p \in Procs |-> NoResponse]
  /\ err = [p \in Procs |-> NoErr]
  /\ result = [p \in Procs |-> NoResult]
  /\ startMsgs = [p \in Procs |-> <<>>]
  /\ touched = [p \in Procs |-> FALSE]
  /\ cleared = [p \in Procs |-> FALSE]
  /\ deleted = {}
  /\ burst = 0
  /\ raced = [p \in Procs |-> {}]
  /\ sent = [p \in Procs |-> 0]
  /\ calls = [p \in Procs |-> 0]
  /\ reachable = TRUE
  /\ config \in configs
  /\ summary = NoSummary

\* NewController(backend, nil)
Init == NewController({DefaultConfig})

\* ----------------------------------------------------- CreateConversation
\* the id CreateConversation computes under the lock
CreateID(nano) == FormatID(nano, Cardinality(DOMAIN conversations))

\* the body of CreateConversation: three clock readings, the object, the map entry
Allocate(systemPrompt, nano, t1, t2) ==
  /\ t1 >= now
  /\ t2 >= t1
  /\ heap' = Append(heap, NewConversation(CreateID(nano), systemPrompt, t1, t2))
  /\ conversations' = MapPut(conversations, CreateID(nano), Len(heap) + 1)
  /\ now' = t2
  /\ burst' = burst + 1

\* CreateConversation, from c.mutex.Lock() to the deferred Unlock
CreateConversation(systemPrompt, nano, t1, t2) ==
  /\ LockFree
  /\ Allocate(systemPrompt, nano, t1, t2)
  /\ UNCHANGED <<backend, writer, readers, pc, locals, startMsgs, touched, cleared,
                 deleted, raced, sent,
                 calls, reachable, config, summary>>

\* -------------------------------------------------------- GetConversation
\* variant: the lookup removes the entry it finds
GetConversation_Evict(id) ==
  /\ CanRLock
  /\ conversations' = MapDelete(conversations, id)
  /\ UNCHANGED <<backend, heap, writer, readers, now, pc, locals, startMsgs, touched,
                 cleared, deleted, burst, raced, sent,
                 calls, reachable, config, summary>>

\* GetConversation, from c.mutex.RLock() to the deferred RUnlock
GetConversation(id) ==
  /\ CanRLock
  /\ UNCHANGED vars

\* what GetConversation(id) returns: the conversation (its heap address) and the error
GetConversationResult(id) ==
  IF id \notin DOMAIN conversations
  THEN [conversation |-> NoConv, err |-> "conversation " \o id \o " not found"]
  ELSE [conversation |-> conversations[id], err |-> NoErr]

\* ------------------------------------------------------ ListConversations
\* ListConversations, from c.mutex.RLock() to the deferred RUnlock
ListConversations ==
  /\ CanRLock
  /\ UNCHANGED vars

\* what ListConversations returns: the conversations of the map, in the order of the
\* map's iteration, which the language leaves open
ListConversationsResult == {conversations[id] : id \in DOMAIN conversations}

\* ----------------------------------------------------- DeleteConversation
\* what DeleteConversation(id) returns
DeleteConversationResult(id) ==
  IF id \notin DOMAIN conversations THEN "conversation " \o id \o " not found" ELSE NoErr

\* DeleteConversation, from c.mutex.Lock() to the deferred Unlock
DeleteConversation(id) ==
  /\ LockFree
  /\ IF id \notin DOMAIN conversations
     THEN UNCHANGED <<conversations, deleted, burst>>
     ELSE /\ conversations' = MapDelete(conversations, id)
          /\ deleted' = deleted \cup {id}
          /\ burst' = 0
  /\ UNCHANGED <<backend, heap, writer, readers, now, pc, locals, startMsgs, touched,
                 cleared, raced, sent,
                 calls, reachable, config, summary>>

\* ------------------------------------------------------ ClearConversation
\* what ClearConversation(id) returns
ClearConversationResult(id) ==
  IF id \notin DOMAIN conversations THEN "conversation " \o id \o " not found" ELSE NoErr

\* ClearConversation, from c.mutex.Lock() to the deferred Unlock
ClearConversation(id, t) ==
  /\ LockFree
  /\ IF id \notin DOMAIN conversations
     THEN UNCHANGED <<heap, now, startMsgs, touched, cleared>>
     ELSE /\ t >= now
          /\ heap' = [heap EXCEPT ![conversations[id]].Messages = SystemMessages(@),
                                  ![conversations[id]].UpdatedAt = t]
          /\ now' = t
          /\ touched' = Touch(NoProc, conversations[id])
          /\ startMsgs' = KeepStart(NoProc, conversations[id])
          /\ cleared' = [p \in Procs |-> cleared[p] \/ conv[p] = conversations[id]]
  /\ UNCHANGED <<backend, conversations, writer, readers, pc, locals, deleted, burst, raced, sent,
                 calls, reachable, config, summary>>

\* ------------------------------------------------------------- SetBackend
\* variant: SetBackend leaves the two words of the reference from different writes
SetBackend_Half(b) ==
  /\ LockFree
  /\ backend' = (IF b = backend THEN b ELSE Torn)
  /\ raced' = raced
  /\ UNCHANGED <<conversations, heap, writer, readers, now, pc, locals, startMsgs,
                 touched, cleared, deleted, burst, sent,
                 calls, reachable, config, summary>>

\* SetBackend, from c.mutex.Lock() to the deferred Unlock
SetBackend(b) ==
  /\ LockFree
  /\ backend' = b
  /\ raced' = [p \in Procs |-> IF pc[p] = "send_call" THEN raced[p] \cup {b} ELSE raced[p]]
  /\ UNCHANGED <<conversations, heap, writer, readers, now, pc, locals, startMsgs,
                 touched, cleared, deleted, burst, sent,
                 calls, reachable, config, summary>>

\* ------------------------------------------------------------- GetBackend
\* GetBackend, from c.mutex.RLock() to the deferred RUnlock
GetBackend ==
  /\ CanRLock
  /\ UNCHANGED vars

\* what GetBackend returns
GetBackendResult == backend

\* IsBackendAvailable: c.backend is read under RLock, IsAvailable is called after RUnlock
IsBackendAvailable ==
  /\ CanRLock
  /\ UNCHANGED vars

\* what IsBackendAvailable(ctx) returns
IsBackendAvailableResult(c) == IsAvailable(backend, c)

\* the network path to the remote provider goes down or comes back
ProviderFlips ==
  /\ reachable' = ~reachable
  /\ UNCHANGED <<backend, conversations, heap, writer, readers, now, pc, locals,
                 startMsgs, touched, cleared, deleted, burst, raced, sent, calls, config, summary>>

\* -------------------------------------------------- GetConversationSummary
\* variant: every message is counted under every role
CountRole_Any(msgs, role) == Len(msgs)

RECURSIVE CountRole(_, _)
\* the switch on msg.Role in the loop of GetConversationSummary
CountRole(msgs, role) ==
  IF msgs = <<>> THEN 0
  ELSE (IF Head(msgs).Role = role THEN 1 ELSE 0) + CountRole(Tail(msgs), role)

RECURSIVE EstimateTokens(_)
\* totalTokens += len(msg.Content) / 4, an integer division
EstimateTokens(msgs) ==
  IF msgs = <<>> THEN 0
  ELSE (Len(Head(msgs).Content) \div 4) + EstimateTokens(Tail(msgs))

\* variant: the search runs from the first index up and stops at the first match
getLastMessageByRole_First(messages, role) ==
  IF \E i \in DOMAIN messages : messages[i].Role = role
  THEN messages[CHOOSE i \in DOMAIN messages :
                  /\ messages[i].Role = role
                  /\ \A j \in 1..(i - 1) : messages[j].Role # role].Content
  ELSE ""

RECURSIVE getLastMessageByRole(_, _)
\* getLastMessageByRole: the loop from the last index down
getLastMessageByRole(messages, role) ==
  IF messages = <<>> THEN ""
  ELSE IF messages[Len(messages)].Role = role
       THEN messages[Len(messages)].Content
       ELSE getLastMessageByRole(SubSeq(messages, 1, Len(messages) - 1), role)

\* the ConversationSummary built from a conversation
ConversationSummary(c) ==
  [ID |-> c.ID,
   MessageCount |-> Len(c.Messages),
   UserMessages |-> CountRole(c.Messages, "user"),
   AssistantMessages |-> CountRole(c.Messages, "assistant"),
   SystemMessages |-> CountRole(c.Messages, "system"),
   EstimatedTokens |-> EstimateTokens(c.Messages),
   CreatedAt |-> c.CreatedAt,
   UpdatedAt |-> c.UpdatedAt,
   LastUserMessage |-> getLastMessageByRole(c.Messages, "user"),
   LastAssistantMessage |-> getLastMessageByRole(c.Messages, "assistant")]

\* GetConversationSummary: GetConversation, then a second RLock for the aggregation
GetConversationSummary(id) ==
  /\ CanRLock
  /\ UNCHANGED vars

\* what GetConversationSummary(id) returns when no writer runs between its two sections
GetConversationSummaryResult(id) ==
  IF GetConversationResult(id).err # NoErr
  THEN [nil |-> TRUE, err |-> GetConversationResult(id).err]
  ELSE [nil |-> FALSE, err |-> NoErr,
        summary |-> ConversationSummary(heap[GetConversationResult(id).conversation])]

\* GetConversationSummary(id) is called by the summarising goroutine
SummaryCall(id) ==
  /\ summary.pc = "idle"
  /\ summary' = [summary EXCEPT !.pc = "sum_call", !.id = id]
  /\ UNCHANGED <<readers, backend, conversations, heap, writer, now, pc, locals, startMsgs,
                 touched, cleared, deleted, burst, raced, sent, calls, reachable, config>>

\* GetConversation inside GetConversationSummary: c.mutex.RLock()
SummaryGetRLock ==
  /\ summary.pc = "sum_call"
  /\ CanRLock
  /\ readers' = readers \cup {Summarizer}
  /\ summary' = [summary EXCEPT !.pc = "sum_get"]
  /\ UNCHANGED <<backend, conversations, heap, writer, now, pc, locals, startMsgs,
                 touched, cleared, deleted, burst, raced, sent, calls, reachable, config>>

\* GetConversation inside GetConversationSummary: the lookup, the deferred RUnlock, and
\* the early return of GetConversationSummary
SummaryGet ==
  /\ summary.pc = "sum_get"
  /\ readers' = readers \ {Summarizer}
  /\ summary' = IF GetConversationResult(summary.id).err # NoErr
                THEN [summary EXCEPT !.pc = "sum_ret",
                                     !.result = [nil |-> TRUE,
                                                 err |-> GetConversationResult(summary.id).err]]
                ELSE [summary EXCEPT !.pc = "sum_gap",
                                     !.conversation =
                                        GetConversationResult(summary.id).conversation]
  /\ UNCHANGED <<backend, conversations, heap, writer, now, pc, locals, startMsgs,
                 touched, cleared, deleted, burst, raced, sent, calls, reachable, config>>

\* the c.mutex.RLock() of GetConversationSummary, after GetConversation has returned
SummaryRLock ==
  /\ summary.pc = "sum_gap"
  /\ CanRLock
  /\ readers' = readers \cup {Summarizer}
  /\ summary' = [summary EXCEPT !.pc = "sum_agg"]
  /\ UNCHANGED <<backend, conversations, heap, writer, now, pc, locals, startMsgs,
                 touched, cleared, deleted, burst, raced, sent, calls, reachable, config>>

\* the loop over conversation.Messages, the summary, and the deferred RUnlock
SummaryAggregate ==
  /\ summary.pc = "sum_agg"
  /\ readers' = readers \ {Summarizer}
  /\ summary' = [summary EXCEPT
                   !.pc = "sum_ret",
                   !.result = [nil |-> FALSE, err |-> NoErr,
                               summary |-> ConversationSummary(heap[summary.conversation])]]
  /\ UNCHANGED <<backend, conversations, heap, writer, now, pc, locals, startMsgs,
                 touched, cleared, deleted, burst, raced, sent, calls, reachable, config>>

\* the caller has the summary in hand and goes on; the call's locals are dropped
SummaryReturn ==
  /\ summary.pc = "sum_ret"
  /\ summary' = NoSummary
  /\ UNCHANGED <<readers, backend, conversations, heap, writer, now, pc, locals, startMsgs,
                 touched, cleared, deleted, burst, raced, sent, calls, reachable, config>>

\* the steps of a GetConversationSummary call
SummaryStep ==
  \/ \E id \in KnownIDs : SummaryCall(id)
  \/ SummaryGetRLock
  \/ SummaryGet
  \/ SummaryRLock
  \/ SummaryAggregate
  \/ SummaryReturn

\* --------------------------------------------------------------- GetStats
\* variant: GetStats counts one message for each conversation
TotalMessages_OneEach(ids) == Cardinality(ids)

RECURSIVE TotalMessages(_)
\* totalMessages += len(conv.Messages) over the conversations of the map
TotalMessages(ids) ==
  IF ids = {} THEN 0
  ELSE LET id == CHOOSE i \in ids : TRUE
       IN Len(heap[conversations[id]].Messages) + TotalMessages(ids \ {id})

\* GetStats, from c.mutex.RLock() to the deferred RUnlock
GetStats ==
  /\ CanRLock
  /\ UNCHANGED vars

\* what GetStats returns (the two timestamps apart)
GetStatsResult ==
  [TotalConversations |-> Cardinality(DOMAIN conversations),
   TotalMessages |-> TotalMessages(DOMAIN conversations),
   BackendName |-> backend]

\* ------------------------------------------------------------ SendMessage
\* the requests a caller may make: an id or none, with or without system prompt, with
\* the model, maxTokens and temperature of its choice
RequestsWith(models, maxTokens, temperatures) ==
  [ConversationID : {NoID} \cup KnownIDs, Message : UserTexts, SystemPrompt : SystemPrompts,
   Model : models, MaxTokens : maxTokens, Temperature : temperatures]

\* the requests that leave model, maxTokens and temperature to the controller
Requests == RequestsWith({""}, {NilPtr}, {NilPtr})

\* the requests of the parameter specification: each of the three given or not, a
\* pointer to zero among the values given
ParamRequests ==
  RequestsWith({"", "gpt-3.5-turbo"}, {NilPtr, PtrTo(0), PtrTo(150)}, {NilPtr, PtrTo(2)})

\* a call starts: its request and its context (live or already cancelled)
StartCall(p, r, c) ==
  /\ Free(p)
  /\ req' = [req EXCEPT ![p] = r]
  /\ ctx' = [ctx EXCEPT ![p] = c]

\* request.ConversationID != "": SendMessage enters GetConversation and takes RLock
SendGetRLock(p, r, c) ==
  /\ r.ConversationID # NoID
  /\ StartCall(p, r, c)
  /\ CanRLock
  /\ readers' = readers \cup {p}
  /\ pc' = [pc EXCEPT ![p] = "send_get"]
  /\ UNCHANGED <<backend, conversations, heap, writer, now, conv, snapshot, bref,
                 response, err, result, startMsgs, touched, cleared, deleted, burst,
                 raced, sent,
                 calls, reachable, config, summary>>

\* request.ConversationID == "": SendMessage enters CreateConversation and takes Lock
SendCreateLock(p, r, c) ==
  /\ r.ConversationID = NoID
  /\ StartCall(p, r, c)
  /\ LockFree
  /\ writer' = p
  /\ pc' = [pc EXCEPT ![p] = "send_create"]
  /\ UNCHANGED <<backend, conversations, heap, readers, now, conv, snapshot, bref,
                 response, err, result, startMsgs, touched, cleared, deleted, burst,
                 raced, sent,
                 calls, reachable, config, summary>>

\* variant: the failed lookup is not reported
NotFoundResult_Nil(p) == NoResult

\* return nil, fmt.Errorf("failed to get conversation: %w", err)
NotFoundResult(p) ==
  [NoResult EXCEPT !.err = "failed to get conversation: conversation "
                           \o req[p].ConversationID \o " not found"]

\* GetConversation inside SendMessage: the lookup, RUnlock, and the early return;
\* request.SystemPrompt is not read from here on and is dropped from the state
SendGet(p) ==
  /\ pc[p] = "send_get"
  /\ readers' = readers \ {p}
  /\ IF req[p].ConversationID \notin DOMAIN conversations
     THEN /\ result' = [result EXCEPT ![p] = NotFoundResult(p)]
          /\ pc' = [pc EXCEPT ![p] = "ret"]
          /\ UNCHANGED <<conv, startMsgs>>
     ELSE /\ conv' = [conv EXCEPT ![p] = conversations[req[p].ConversationID]]
          /\ startMsgs' = [startMsgs EXCEPT
                             ![p] = heap[conversations[req[p].ConversationID]].Messages]
          /\ pc' = [pc EXCEPT ![p] = "send_prep"]
          /\ UNCHANGED result
  /\ req' = [req EXCEPT ![p].SystemPrompt = ""]
  /\ UNCHANGED <<backend, conversations, heap, writer, now, ctx, snapshot, bref,
                 response, err, touched, cleared, deleted, burst, raced, sent,
                 calls, reachable, config, summary>>

\* CreateConversation inside SendMessage, body and Unlock; request.SystemPrompt is not
\* read from here on and is dropped from the state
SendCreate(p, nano, t1, t2) ==
  /\ pc[p] = "send_create"
  /\ Allocate(req[p].SystemPrompt, nano, t1, t2)
  /\ conv' = [conv EXCEPT ![p] = Len(heap) + 1]
  /\ startMsgs' = [startMsgs EXCEPT ![p] = heap'[Len(heap) + 1].Messages]
  /\ writer' = NoProc
  /\ pc' = [pc EXCEPT ![p] = "send_prep"]
  /\ req' = [req EXCEPT ![p].SystemPrompt = ""]
  /\ UNCHANGED <<backend, readers, ctx, snapshot, bref, response, err, result,
                 touched, cleared, deleted, raced, sent,
                 calls, reachable, config, summary>>

\* userMessage := ai.Message{Role: "user", Content: request.Message}
UserMessage(p) == Message("user", req[p].Message, p)

\* variant: the user append is entered only when the backend reports itself available
SendLockUser_Gated(p) ==
  /\ pc[p] = "send_prep"
  /\ IsAvailable(backend, ctx[p])
  /\ LockFree
  /\ writer' = p
  /\ pc' = [pc EXCEPT ![p] = "send_user"]
  /\ UNCHANGED <<backend, conversations, heap, readers, now, locals, startMsgs,
                 touched, cleared, deleted, burst, raced, sent,
                 calls, reachable, config, summary>>

\* c.mutex.Lock() before the user append
SendLockUser(p) ==
  /\ pc[p] = "send_prep"
  /\ LockFree
  /\ writer' = p
  /\ pc' = [pc EXCEPT ![p] = "send_user"]
  /\ UNCHANGED <<backend, conversations, heap, readers, now, locals, startMsgs,
                 touched, cleared, deleted, burst, raced, sent,
                 calls, reachable, config, summary>>

\* variant: the first critical section is left without Unlock
AfterUserSection_Held(p) == p

\* the holder of the mutex once the first critical section is left: c.mutex.Unlock()
AfterUserSection(p) == NoProc

\* variant: the copy for the backend is taken before the user message is appended
SendAppendUser_CopyFirst(p, t) ==
  /\ pc[p] = "send_user"
  /\ t >= now
  /\ heap' = AppendMessage(heap, conv[p], UserMessage(p), t)
  /\ now' = t
  /\ snapshot' = [snapshot EXCEPT ![p] = heap[conv[p]].Messages]
  /\ touched' = Touch(p, conv[p])
  /\ startMsgs' = KeepStart(p, conv[p])
  /\ writer' = AfterUserSection(p)
  /\ raced' = [raced EXCEPT ![p] = {backend}]
  /\ pc' = [pc EXCEPT ![p] = "send_call"]
  /\ UNCHANGED <<backend, conversations, readers, req, ctx, conv, bref, response, err,
                 result, cleared, deleted, burst, sent,
                 calls, reachable, config, summary>>

\* the first critical section: append the user message, refresh UpdatedAt, copy, Unlock
SendAppendUser(p, t) ==
  /\ pc[p] = "send_user"
  /\ t >= now
  /\ heap' = AppendMessage(heap, conv[p], UserMessage(p), t)
  /\ now' = t
  /\ snapshot' = [snapshot EXCEPT ![p] = heap'[conv[p]].Messages]
  /\ touched' = Touch(p, conv[p])
  /\ startMsgs' = KeepStart(p, conv[p])
  /\ writer' = AfterUserSection(p)
  /\ raced' = [raced EXCEPT ![p] = {backend}]
  /\ pc' = [pc EXCEPT ![p] = "send_call"]
  /\ UNCHANGED <<backend, conversations, readers, req, ctx, conv, bref, response, err,
                 result, cleared, deleted, burst, sent,
                 calls, reachable, config, summary>>

\* what a read of c.backend made without the mutex can yield: a value the field has held
\* since the reader last synchronised, or, the interface value being two words written
\* one after the other, the type word of one write with the data word of another
Observed(p) ==
  raced[p] \cup (IF Cardinality(raced[p]) > 1 THEN {Torn} ELSE {})

\* model := request.Model; if model == "" { model = c.defaultModel }
EffectiveModel(p) == IF req[p].Model = "" THEN config.DefaultModel ELSE req[p].Model

\* variant: a request's maxTokens of zero is taken as not given
EffectiveMaxTokens_ZeroIsUnset(p) ==
  IF req[p].MaxTokens = NilPtr \/ req[p].MaxTokens = PtrTo(0)
  THEN PtrTo(config.MaxTokens)
  ELSE req[p].MaxTokens

\* maxTokens := request.MaxTokens; if maxTokens == nil { maxTokens = &c.maxTokens }
EffectiveMaxTokens(p) ==
  IF req[p].MaxTokens = NilPtr THEN PtrTo(config.MaxTokens) ELSE req[p].MaxTokens

\* temperature := request.Temperature; if temperature == nil { temperature = &c.temperature }
EffectiveTemperature(p) ==
  IF req[p].Temperature = NilPtr THEN PtrTo(config.Temperature) ELSE req[p].Temperature

\* aiRequest := ai.ChatCompletionRequest{Model, Messages: messagesCopy, MaxTokens, Temperature}
AIRequest(p) ==
  [Model |-> EffectiveModel(p), Messages |-> snapshot[p],
   MaxTokens |-> EffectiveMaxTokens(p), Temperature |-> EffectiveTemperature(p)]

\* variant: a dispatch that fails over to a second invocation at once
SendDispatch_Twice(p) ==
  /\ pc[p] = "send_call"
  /\ \E b \in Observed(p) : bref' = [bref EXCEPT ![p] = b]
  /\ raced' = [raced EXCEPT ![p] = {}]
  /\ pc' = [pc EXCEPT ![p] = "send_wait"]
  /\ calls' = [calls EXCEPT ![p] = @ + 2]
  /\ UNCHANGED <<backend, conversations, heap, writer, readers, now, req, ctx, conv,
                 snapshot, response, err, result, startMsgs, touched, cleared, deleted, burst,
                 sent, reachable, config, summary>>

\* c.backend.ChatCompletion(ctx, aiRequest): c.backend is read and the call starts
SendDispatch(p) ==
  /\ pc[p] = "send_call"
  /\ \E b \in Observed(p) : bref' = [bref EXCEPT ![p] = b]
  /\ raced' = [raced EXCEPT ![p] = {}]
  /\ pc' = [pc EXCEPT ![p] = "send_wait"]
  /\ calls' = [calls EXCEPT ![p] = @ + 1]
  /\ UNCHANGED <<backend, conversations, heap, writer, readers, now, req, ctx, conv,
                 snapshot, response, err, result, startMsgs, touched, cleared, deleted, burst,
                 sent, reachable, config, summary>>

\* the caller's cancellation or deadline fires while the backend call is in progress
CtxFire(p, c) ==
  /\ pc[p] = "send_wait"
  /\ ctx[p] = "live"
  /\ ctx' = [ctx EXCEPT ![p] = c]
  /\ UNCHANGED <<backend, conversations, heap, writer, readers, now, pc, req, conv,
                 snapshot, bref, response, err, result, startMsgs, touched, cleared,
                 deleted, burst, raced, sent,
                 calls, reachable, config, summary>>

\* the method runs on a receiver of the other variant and the goroutine panics; the
\* call's locals are dropped
SendPanic(p) ==
  /\ pc[p] = "send_wait"
  /\ bref[p] = Torn
  /\ pc' = [pc EXCEPT ![p] = "panic"]
  /\ req' = [req EXCEPT ![p] = NoRequest]
  /\ ctx' = [ctx EXCEPT ![p] = "live"]
  /\ conv' = [conv EXCEPT ![p] = NoConv]
  /\ snapshot' = [snapshot EXCEPT ![p] = <<>>]
  /\ bref' = [bref EXCEPT ![p] = ""]
  /\ startMsgs' = [startMsgs EXCEPT ![p] = <<>>]
  /\ touched' = [touched EXCEPT ![p] = FALSE]
  /\ cleared' = [cleared EXCEPT ![p] = FALSE]
  /\ calls' = [calls EXCEPT ![p] = 0]
  /\ UNCHANGED <<backend, conversations, heap, writer, readers, now, response, err,
                 result, deleted, burst, raced, sent,
                 reachable, config, summary>>

\* variant: an error response that carries neither the id nor the user message
ErrorResult_Bare(p, text) ==
  [nil |-> FALSE, ConversationID |-> NoID, Message |-> NoMessage,
   Response |-> NoResponse, Error |-> text, err |-> text]

\* &ChatResponse{ConversationID, Message: userMessage, Error: text}, err
ErrorResult(p, text) ==
  [nil |-> FALSE, ConversationID |-> heap[conv[p]].ID, Message |-> UserMessage(p),
   Response |-> NoResponse, Error |-> text, err |-> text]

\* variant: a completion without choices is not treated as an error
AfterCompletion_AnyChoices(p, out) ==
  /\ err' = [err EXCEPT ![p] = out.err]
  /\ response' = [response EXCEPT ![p] = IF out.err # NoErr THEN NoResponse
                                          ELSE [nil |-> FALSE, Choices |-> out.Choices]]
  /\ IF out.err # NoErr
     THEN /\ result' = [result EXCEPT ![p] = ErrorResult(p, out.err)]
          /\ pc' = [pc EXCEPT ![p] = "ret"]
     ELSE IF Len(out.Choices) = 0
          THEN /\ result' = [result EXCEPT ![p] = [ErrorResult(p, "") EXCEPT !.err = NoErr]]
               /\ pc' = [pc EXCEPT ![p] = "ret"]
          ELSE /\ pc' = [pc EXCEPT ![p] = "send_reply"]
               /\ UNCHANGED result

\* response, err := c.backend.ChatCompletion(ctx, aiRequest), and the two early returns
AfterCompletion(p, out) ==
  /\ err' = [err EXCEPT ![p] = out.err]
  /\ response' = [response EXCEPT ![p] = IF out.err # NoErr THEN NoResponse
                                          ELSE [nil |-> FALSE, Choices |-> out.Choices]]
  /\ IF out.err # NoErr
     THEN /\ result' = [result EXCEPT ![p] = ErrorResult(p, out.err)]
          /\ pc' = [pc EXCEPT ![p] = "ret"]
     ELSE IF Len(out.Choices) = 0
          THEN /\ result' = [result EXCEPT
                                ![p] = ErrorResult(p, "no response choices returned")]
               /\ pc' = [pc EXCEPT ![p] = "ret"]
          ELSE /\ pc' = [pc EXCEPT ![p] = "send_reply"]
               /\ UNCHANGED result

\* the backend call returns out; the error and the zero-choices returns of SendMessage
SendCompletion(p, out) ==
  /\ pc[p] = "send_wait"
  /\ out \in ChatCompletion(bref[p], ctx[p], AIRequest(p))
  /\ AfterCompletion(p, out)
  /\ UNCHANGED <<backend, conversations, heap, writer, readers, now, req, ctx, conv,
                 snapshot, bref, startMsgs, touched, cleared, deleted, burst, raced, sent,
                 calls, reachable, config, summary>>

\* variant: the last choice is taken instead of the first
AssistantMessage_Last(p) ==
  [response[p].Choices[Len(response[p].Choices)] EXCEPT !.call = p]

\* assistantMessage := response.Choices[0].Message
AssistantMessage(p) == [response[p].Choices[1] EXCEPT !.call = p]

\* c.mutex.Lock() before the assistant append
SendLockReply(p) ==
  /\ pc[p] = "send_reply"
  /\ LockFree
  /\ writer' = p
  /\ pc' = [pc EXCEPT ![p] = "send_asst"]
  /\ UNCHANGED <<backend, conversations, heap, readers, now, locals, startMsgs,
                 touched, cleared, deleted, burst, raced, sent,
                 calls, reachable, config, summary>>

\* &ChatResponse{ConversationID, Message: assistantMessage, Response: response}, nil
SuccessResult(p) ==
  [nil |-> FALSE, ConversationID |-> heap[conv[p]].ID, Message |-> AssistantMessage(p),
   Response |-> response[p], Error |-> "", err |-> NoErr]

\* variant: the message of every choice is appended, not only that of the first
SendAppendReply_EveryChoice(p, t) ==
  /\ pc[p] = "send_asst"
  /\ t >= now
  /\ heap' = [heap EXCEPT
                ![conv[p]].Messages =
                   @ \o [k \in DOMAIN response[p].Choices |->
                           [response[p].Choices[k] EXCEPT !.call = p]],
                ![conv[p]].UpdatedAt = t]
  /\ now' = t
  /\ touched' = Touch(p, conv[p])
  /\ startMsgs' = KeepStart(p, conv[p])
  /\ writer' = NoProc
  /\ result' = [result EXCEPT ![p] = SuccessResult(p)]
  /\ pc' = [pc EXCEPT ![p] = "ret"]
  /\ UNCHANGED <<backend, conversations, readers, req, ctx, conv, snapshot, bref,
                 response, err, cleared, deleted, burst, raced, sent,
                 calls, reachable, config, summary>>

\* variant: the assistant message is appended to the call's copy of the log
SendAppendReply_Stale(p, t) ==
  /\ pc[p] = "send_asst"
  /\ t >= now
  /\ heap' = [heap EXCEPT ![conv[p]].Messages = Append(snapshot[p], AssistantMessage(p)),
                          ![conv[p]].UpdatedAt = t]
  /\ now' = t
  /\ touched' = Touch(p, conv[p])
  /\ startMsgs' = KeepStart(p, conv[p])
  /\ writer' = NoProc
  /\ result' = [result EXCEPT ![p] = SuccessResult(p)]
  /\ pc' = [pc EXCEPT ![p] = "ret"]
  /\ UNCHANGED <<backend, conversations, readers, req, ctx, conv, snapshot, bref,
                 response, err, cleared, deleted, burst, raced, sent,
                 calls, reachable, config, summary>>

\* the second critical section: append the assistant message, refresh UpdatedAt, Unlock
SendAppendReply(p, t) ==
  /\ pc[p] = "send_asst"
  /\ t >= now
  /\ heap' = AppendMessage(heap, conv[p], AssistantMessage(p), t)
  /\ now' = t
  /\ touched' = Touch(p, conv[p])
  /\ startMsgs' = KeepStart(p, conv[p])
  /\ writer' = NoProc
  /\ result' = [result EXCEPT ![p] = SuccessResult(p)]
  /\ pc' = [pc EXCEPT ![p] = "ret"]
  /\ UNCHANGED <<backend, conversations, readers, req, ctx, conv, snapshot, bref,
                 response, err, cleared, deleted, burst, raced, sent,
                 calls, reachable, config, summary>>

\* the caller has the result in hand and goes on; the call's locals are dropped
SendReturn(p) ==
  /\ pc[p] = "ret"
  /\ pc' = [pc EXCEPT ![p] = "done"]
  /\ req' = [req EXCEPT ![p] = NoRequest]
  /\ ctx' = [ctx EXCEPT ![p] = "live"]
  /\ conv' = [conv EXCEPT ![p] = NoConv]
  /\ snapshot' = [snapshot EXCEPT ![p] = <<>>]
  /\ bref' = [bref EXCEPT ![p] = ""]
  /\ response' = [response EXCEPT ![p] = NoResponse]
  /\ err' = [err EXCEPT ![p] = NoErr]
  /\ result' = [result EXCEPT ![p] = NoResult]
  /\ startMsgs' = [startMsgs EXCEPT ![p] = <<>>]
  /\ touched' = [touched EXCEPT ![p] = FALSE]
  /\ cleared' = [cleared EXCEPT ![p] = FALSE]
  /\ sent' = [sent EXCEPT ![p] = @ + 1]
  /\ calls' = [calls EXCEPT ![p] = 0]
  /\ UNCHANGED <<backend, conversations, heap, writer, readers, now, deleted, burst,
                 raced, reachable, config, summary>>

\* ------------------------------------------------------------------- Next
\* the operations that hold the mutex throughout, with clock readings from clk and at
\* most maxConvs conversations ever created
StoreStep(clk, maxConvs) ==
  \/ \E sp \in SystemPrompts, nano, t1, t2 \in clk :
       Len(heap) < maxConvs /\ CreateConversation(sp, nano, t1, t2)
  \/ \E id \in KnownIDs : GetConversation(id)
  \/ \E id \in KnownIDs : DeleteConversation(id)
  \/ \E id \in KnownIDs, t \in clk : ClearConversation(id, t)
  \/ \E b \in Backends : SetBackend(b)
  \/ ListConversations
  \/ GetBackend
  \/ \E id \in KnownIDs : GetConversationSummary(id)
  \/ GetStats
  \/ IsBackendAvailable

\* the steps of the SendMessage call of goroutine p
SendStepOf(p, clk, maxConvs) ==
  \/ \E r \in Requests, c \in {"live", "canceled"} : SendGetRLock(p, r, c)
  \/ \E r \in Requests, c \in {"live", "canceled"} :
       Len(heap) < maxConvs /\ SendCreateLock(p, r, c)
  \/ SendGet(p)
  \/ \E nano, t1, t2 \in clk : SendCreate(p, nano, t1, t2)
  \/ SendLockUser(p)
  \/ \E t \in clk : SendAppendUser(p, t)
  \/ SendDispatch(p)
  \/ \E c \in {"canceled", "deadline"} : CtxFire(p, c)
  \/ SendPanic(p)
  \/ \E out \in ChatCompletion(bref[p], ctx[p], AIRequest(p)) : SendCompletion(p, out)
  \/ SendLockReply(p)
  \/ \E t \in clk : SendAppendReply(p, t)
  \/ SendReturn(p)

\* the steps of the SendMessage calls
SendStep(clk, maxConvs) == \E p \in Procs : SendStepOf(p, clk, maxConvs)

\* the dispatch specification: every operation, a clock that does not tick
Next == StoreStep(CoarseClock, MaxConvs) \/ SendStep(CoarseClock, MaxConvs)

Spec == Init /\ [][Next]_vars

\* the store specification: the operations on the collection, a clock that ticks
NextStore == StoreStep(Clock, StoreConvs)

SpecStore == Init /\ [][NextStore]_vars

\* the coarse-clock store specification: the operations on the collection while the
\* clock does not tick
NextCoarse == StoreStep(CoarseClock, CoarseConvs)

SpecCoarse == Init /\ [][NextCoarse]_vars

\* the single-caller specification: every operation and one SendMessage call, with a
\* clock that ticks
NextTurn == StoreStep(Clock, TurnConvs) \/ SendStepOf(1, Clock, TurnConvs)

SpecTurn == Init /\ [][NextTurn]_vars

\* ------------------------------- the concurrent test: own conversations
\* a goroutine of TestIntegration_ConcurrentOperations calls SendMessage with the id of
\* the conversation it created (the goroutines are numbered in the order of their
\* creations), with a live context, until it has made SendsEach calls; SendMessage
\* enters GetConversation and takes RLock
OwnSendGetRLock(p, text) ==
  /\ pc[p] \in {"idle", "done"}
  /\ p <= Len(heap)
  /\ sent[p] < SendsEach
  /\ req' = [req EXCEPT ![p] = [NoRequest EXCEPT !.ConversationID = heap[p].ID,
                                                  !.Message = text]]
  /\ ctx' = [ctx EXCEPT ![p] = "live"]
  /\ CanRLock
  /\ readers' = readers \cup {p}
  /\ pc' = [pc EXCEPT ![p] = "send_get"]
  /\ UNCHANGED <<backend, conversations, heap, writer, now, conv, snapshot, bref,
                 response, err, result, startMsgs, touched, cleared, deleted, burst,
                 raced, sent,
                 calls, reachable, config, summary>>

\* the test runs on the mock backend
InitOwn == Init /\ backend = "MockAI"

\* one creation with a system prompt for each goroutine, the calls of the goroutines,
\* and the reads the test ends with
NextOwn ==
  \/ \E sp \in SystemPrompts \ {""}, nano, t1, t2 \in CoarseClock :
       Len(heap) < Cardinality(Procs) /\ CreateConversation(sp, nano, t1, t2)
  \/ \E p \in Procs, text \in UserTexts : OwnSendGetRLock(p, text)
  \/ \E p \in Procs : SendGet(p)
  \/ \E p \in Procs : SendLockUser(p)
  \/ \E p \in Procs, t \in CoarseClock : SendAppendUser(p, t)
  \/ \E p \in Procs : SendDispatch(p)
  \/ \E p \in Procs :
       \E out \in ChatCompletion(bref[p], ctx[p], AIRequest(p)) : SendCompletion(p, out)
  \/ \E p \in Procs : SendLockReply(p)
  \/ \E p \in Procs, t \in CoarseClock : SendAppendReply(p, t)
  \/ \E p \in Procs : SendReturn(p)
  \/ \E id \in DOMAIN conversations : GetConversation(id)
  \/ GetStats

SpecOwn == InitOwn /\ [][NextOwn]_vars

\* ------------------------------------- the availability specification
\* every operation and one SendMessage call, while the remote provider comes and goes
NextAvail ==
  \/ StoreStep(CoarseClock, TurnConvs)
  \/ SendStepOf(1, CoarseClock, TurnConvs)
  \/ ProviderFlips

SpecAvail == Init /\ [][NextAvail]_vars

\* --------------------------------------- the parameter specification
\* NewController(backend, config) with config nil or given
InitParams == NewController(Configs)

\* one SendMessage call that creates its conversation, its request with or without a
\* model, maxTokens and temperature of its own
NextParams ==
  \/ \E r \in ParamRequests : SendCreateLock(1, r, "live")
  \/ \E nano, t1, t2 \in CoarseClock : SendCreate(1, nano, t1, t2)
  \/ SendLockUser(1)
  \/ \E t \in CoarseClock : SendAppendUser(1, t)
  \/ SendDispatch(1)
  \/ \E out \in ChatCompletion(bref[1], ctx[1], AIRequest(1)) : SendCompletion(1, out)
  \/ SendLockReply(1)
  \/ \E t \in CoarseClock : SendAppendReply(1, t)
  \/ SendReturn(1)

SpecParams == InitParams /\ [][NextParams]_vars

\* ------------------------------------------ the summary specification
\* every operation, one SendMessage call and one goroutine that calls
\* GetConversationSummary, step by step, over and over
NextSummary ==
  \/ StoreStep(CoarseClock, TurnConvs)
  \/ SendStepOf(1, CoarseClock, TurnConvs)
  \/ SummaryStep

SpecSummary == Init /\ [][NextSummary]_vars

\* ------------------------------------------------- the liveness specification
\* the steps of the SendMessage call of goroutine p that wait for no lock: once the
\* goroutine is scheduled it takes them, and the call of the backend returns (or the
\* method of a mixed interface value panics)
SendRuns(p) ==
  \/ SendGet(p)
  \/ \E nano, t1, t2 \in CoarseClock : SendCreate(p, nano, t1, t2)
  \/ \E t \in CoarseClock : SendAppendUser(p, t)
  \/ SendDispatch(p)
  \/ \E out \in ChatCompletion(bref[p], ctx[p], AIRequest(p)) : SendCompletion(p, out)
  \/ SendPanic(p)
  \/ \E t \in CoarseClock : SendAppendReply(p, t)
  \/ SendReturn(p)

\* the steps of the GetConversationSummary call that wait for no lock
SummaryRuns == SummaryGet \/ SummaryAggregate \/ SummaryReturn

\* the scheduler runs every runnable goroutine again and again, and sync.RWMutex lets no
\* waiter starve: a goroutine blocked in Lock or RLock gets the mutex when it is released
\* again and again
Fairness ==
  /\ WF_vars(SendRuns(1))
  /\ SF_vars(SendLockUser(1))
  /\ SF_vars(SendLockReply(1))
  /\ WF_vars(SummaryRuns)
  /\ SF_vars(SummaryGetRLock)
  /\ SF_vars(SummaryRLock)

\* the summary specification under this scheduling
SpecLive == Init /\ [][NextSummary]_vars /\ Fairness

\* ----------------------------------------------------------------- claims
\* the positions in the log of conversation h of the messages of call p with this role
Positions(h, p, role) ==
  {i \in DOMAIN heap[h].Messages :
     heap[h].Messages[i].call = p /\ heap[h].Messages[i].Role = role}

\* the positions in the log of conversation h of the messages no SendMessage call appended
Earlier(h) == {i \in DOMAIN heap[h].Messages : heap[h].Messages[i].call \notin Procs}

\* C1: the conversations created by any number of CreateConversation calls with no
\* other operation between them have pairwise distinct ids, and the id of a
\* conversation never changes
C1_DistinctImmutableIDs ==
  [][/\ \A h1, h2 \in DOMAIN heap' :
          (h1 # h2 /\ h1 > Len(heap') - burst' /\ h2 > Len(heap') - burst')
            => heap'[h1].ID # heap'[h2].ID
     /\ \A h \in DOMAIN heap : heap'[h].ID = heap[h].ID]_vars

\* C2: an id on which DeleteConversation has succeeded is never the id of a
\* conversation in the collection again
C2_DeletedIdNeverReturned == \A id \in deleted : id \notin DOMAIN conversations

\* C3: when SendMessage on an existing conversation returns success and no other
\* goroutine changed the conversation during the call, the log is the log at the start
\* of the call followed by the caller's user message and the first choice of the backend
C3_SuccessAppendsUserThenAssistant ==
  \A p \in Procs :
    (/\ pc[p] = "ret"
     /\ ~result[p].nil
     /\ result[p].err = NoErr
     /\ req[p].ConversationID # NoID
     /\ ~touched[p])
    => /\ Len(heap[conv[p]].Messages) = Len(startMsgs[p]) + 2
       /\ heap[conv[p]].Messages =
            startMsgs[p] \o <<Message("user", req[p].Message, p),
                              [response[p].Choices[1] EXCEPT !.call = p]>>

\* C3: a call on an existing conversation with a system message returned success alone
C3_Witness ==
  \E p \in Procs :
    /\ pc[p] = "ret"
    /\ ~result[p].nil
    /\ result[p].err = NoErr
    /\ req[p].ConversationID # NoID
    /\ ~touched[p]
    /\ startMsgs[p] # <<>>
    /\ Len(response[p].Choices) > 1

\* C4: when the backend returns an error, SendMessage returns that error with a
\* response carrying the conversation id, the user message and the error text and no
\* completion; the log has grown by the user message only (it is last when the call was
\* alone), and no step of the controller other than ClearConversation removes a message
C4_BackendErrorKeepsUserMessage ==
  [][/\ \A p \in Procs :
          (pc'[p] = "ret" /\ err'[p] # NoErr)
          => /\ ~result'[p].nil
             /\ result'[p].err = err'[p]
             /\ result'[p].Error = err'[p]
             /\ result'[p].ConversationID = heap'[conv'[p]].ID
             /\ result'[p].Message = Message("user", req'[p].Message, p)
             /\ result'[p].Response = NoResponse
             /\ Positions(conv[p], p, "assistant")' = {}
             /\ ~touched'[p] =>
                  heap'[conv'[p]].Messages =
                    startMsgs'[p] \o <<Message("user", req'[p].Message, p)>>
             /\ ~cleared'[p] => Cardinality(Positions(conv[p], p, "user")') = 1
     /\ \A h \in DOMAIN heap :
          \/ /\ Len(heap'[h].Messages) >= Len(heap[h].Messages)
             /\ SubSeq(heap'[h].Messages, 1, Len(heap[h].Messages)) = heap[h].Messages
          \/ /\ LockFree
             /\ heap'[h].Messages = SystemMessages(heap[h].Messages)]_vars

\* C4: a call came back with the backend's error while another call appended to the
\* same conversation
C4_Witness ==
  \E p \in Procs :
    /\ pc[p] = "ret"
    /\ err[p] = "OpenAI API error"
    /\ touched[p]
    /\ ~cleared[p]

\* C5: a call whose context is cancelled or past its deadline before the backend
\* responds returns an error that wraps the context's error, never reaches the
\* assistant append, and leaves its user message and no assistant message of its own in
\* its conversation
C5_CancelledCallAppendsNoAssistant ==
  \A p \in Procs :
    ctx[p] # "live"
    => /\ pc[p] \notin {"send_reply", "send_asst"}
       /\ \A h \in DOMAIN heap : Positions(h, p, "assistant") = {}
       /\ pc[p] = "ret" => result[p].err # NoErr
       /\ (pc[p] = "ret" /\ conv[p] # NoConv)
          => /\ err[p] \in {CtxErr(ctx[p]), "failed to send request: " \o CtxErr(ctx[p])}
             /\ result[p].err = err[p]
             /\ ~cleared[p] => Cardinality(Positions(conv[p], p, "user")) = 1

\* C5: a call without conversation id whose deadline passed came back with the error,
\* its user message last in the conversation it created
C5_Witness ==
  \E p \in Procs :
    /\ pc[p] = "ret"
    /\ ctx[p] = "deadline"
    /\ req[p].ConversationID = NoID
    /\ conv[p] # NoConv
    /\ heap[conv[p]].Messages[Len(heap[conv[p]].Messages)] =
         Message("user", req[p].Message, p)

\* C6: when the backend returns no error and zero choices, SendMessage returns the error
\* "no response choices returned" with a response carrying the conversation id and the
\* user message, appends no assistant message and leaves the user message in the log
C6_EmptyCompletionIsError ==
  \A p \in Procs :
    (pc[p] = "ret" /\ err[p] = NoErr /\ ~response[p].nil /\ response[p].Choices = <<>>)
    => /\ ~result[p].nil
       /\ result[p].err = "no response choices returned"
       /\ result[p].Error = "no response choices returned"
       /\ result[p].ConversationID = heap[conv[p]].ID
       /\ result[p].Message = Message("user", req[p].Message, p)
       /\ result[p].Response = NoResponse
       /\ \A h \in DOMAIN heap : Positions(h, p, "assistant") = {}
       /\ ~cleared[p] => Cardinality(Positions(conv[p], p, "user")) = 1
       /\ ~touched[p] =>
            heap[conv[p]].Messages = startMsgs[p] \o <<Message("user", req[p].Message, p)>>

\* C6: a call came back from a completion without choices
C6_Witness ==
  \E p \in Procs :
    /\ pc[p] = "ret"
    /\ err[p] = NoErr
    /\ response[p] = [nil |-> FALSE, Choices |-> <<>>]
    /\ ~touched[p]

\* C7: a SendMessage whose non-empty id is not in the collection at the lookup returns
\* a nil response and the not-found error; no step of such a call changes a
\* conversation, the collection, the clock or the backend, the call resolves no
\* conversation, appends no message and never reaches the backend
C7_UnknownIdHasNoEffect ==
  [][\A p \in Procs :
       /\ (/\ pc[p] = "send_get"
           /\ pc'[p] # "send_get"
           /\ req[p].ConversationID \notin DOMAIN conversations)
          => /\ pc'[p] = "ret"
             /\ result'[p].nil
             /\ result'[p].err = "failed to get conversation: conversation "
                                 \o req[p].ConversationID \o " not found"
       /\ (/\ pc'[p] # pc[p]
           /\ \/ pc'[p] = "send_get"
              \/ pc'[p] = "ret" /\ result'[p].nil
              \/ pc[p] = "ret" /\ result[p].nil)
          => /\ heap' = heap
             /\ conversations' = conversations
             /\ now' = now
             /\ backend' = backend
       /\ (pc'[p] = "ret" /\ result'[p].nil)
          => /\ result'[p].err # NoErr
             /\ req'[p].ConversationID # NoID
             /\ conv'[p] = NoConv
             /\ bref'[p] = ""
             /\ snapshot'[p] = <<>>
             /\ response'[p] = NoResponse
             /\ \A h \in DOMAIN heap' : \A i \in DOMAIN heap'[h].Messages :
                  heap'[h].Messages[i].call # p]_vars

\* C7: a call on a deleted id came back not found while a conversation exists
C7_Witness ==
  \E p \in Procs :
    /\ pc[p] = "ret"
    /\ result[p].nil
    /\ req[p].ConversationID \in deleted
    /\ heap # <<>>

\* C8: in every log, the user message of a call is at a smaller index than the
\* assistant message of the same call
C8_UserBeforeOwnAssistant ==
  \A h \in DOMAIN heap : \A p \in Procs :
    \A i \in Positions(h, p, "user") : \A j \in Positions(h, p, "assistant") : i < j

\* C8: the turns of two calls are interleaved in one log
C8_Witness ==
  \E h \in DOMAIN heap : \E p, q \in Procs :
    /\ p # q
    /\ \E i \in Positions(h, p, "user") : \E j \in Positions(h, p, "assistant") :
         \E k \in Positions(h, q, "user") : \E l \in Positions(h, q, "assistant") :
           i < k /\ k < l /\ l < j

\* C9: a call for which the backend returned a choice returns success; unless
\* ClearConversation ran on its conversation, the log holds its user message once and
\* its assistant message once, and when all the calls have done so on one conversation
\* the log holds two messages per call more than the messages that were there before
C9_ConcurrentSendsLoseNoAppend ==
  /\ \A p \in Procs :
       (pc[p] = "ret" /\ err[p] = NoErr /\ ~response[p].nil /\ response[p].Choices # <<>>)
       => /\ ~result[p].nil
          /\ result[p].err = NoErr
          /\ result[p].Error = ""
          /\ ~cleared[p]
             => /\ Cardinality(Positions(conv[p], p, "user")) = 1
                /\ Cardinality(Positions(conv[p], p, "assistant")) = 1
  /\ \A h \in DOMAIN heap :
       (\A p \in Procs :
          /\ pc[p] = "ret"
          /\ conv[p] = h
          /\ err[p] = NoErr
          /\ response[p].Choices # <<>>
          /\ ~cleared[p])
       => Len(heap[h].Messages) = Cardinality(Earlier(h)) + 2 * Cardinality(Procs)

\* C9: both calls came back with success from the same conversation, which had a
\* system message, the second user message appended before the first assistant message
C9_Witness ==
  \E h \in DOMAIN heap :
    /\ \A p \in Procs :
         /\ pc[p] = "ret"
         /\ conv[p] = h
         /\ result[p].err = NoErr
         /\ ~cleared[p]
    /\ Earlier(h) # {}
    /\ Len(heap[h].Messages) = 5
    /\ heap[h].Messages[2].Role = "user"
    /\ heap[h].Messages[3].Role = "user"

\* C10: from the Unlock of its first critical section to the return of the backend a
\* SendMessage holds the mutex neither as writer nor as reader, and unless another
\* SendMessage holds it every other operation can take it at once
C10_NoLockHeldAcrossBackendCall ==
  \A p \in Procs :
    pc[p] \in {"send_call", "send_wait"}
    => /\ writer # p
       /\ p \notin readers
       /\ (\A q \in Procs \ {p} : writer # q /\ q \notin readers)
          => /\ ENABLED (\E id \in KnownIDs : GetConversation(id))
             /\ ENABLED (\E id \in KnownIDs : DeleteConversation(id))
             /\ ENABLED (\E id \in KnownIDs : ClearConversation(id, now))
             /\ ENABLED (\E b \in Backends : SetBackend(b))
             /\ ENABLED (\E sp \in SystemPrompts : CreateConversation(sp, now, now, now))
             /\ \A q \in Procs \ {p} : pc[q] = "send_prep" => ENABLED SendLockUser(q)

\* C10: the backend was replaced while a call was waiting for its completion
C10_Witness == \E p \in Procs : pc[p] = "send_wait" /\ bref[p] # backend

\* C11: the sequence handed to the backend is the log of the conversation at the
\* call's user append, ending with the call's own user message; it stays as it is while
\* the call waits, whatever is appended to, cleared from or deleted around the
\* conversation, and it is the sequence the completion is computed from
C11_SnapshotIsLogAtUserAppend ==
  [][\A p \in Procs :
       /\ (pc[p] = "send_user" /\ pc'[p] = "send_call")
          => /\ snapshot'[p] = heap'[conv[p]].Messages
             /\ snapshot'[p] =
                  Append(heap[conv[p]].Messages, Message("user", req[p].Message, p))
       /\ (pc[p] \in {"send_call", "send_wait"} /\ pc'[p] \in {"send_call", "send_wait"})
          => snapshot'[p] = snapshot[p]
       /\ (pc[p] = "send_wait" /\ pc'[p] \in {"ret", "send_reply"})
          => /\ snapshot[p][Len(snapshot[p])] = Message("user", req[p].Message, p)
             /\ \E out \in ChatCompletion(bref[p], ctx[p], AIRequest(p)) :
                  /\ err'[p] = out.err
                  /\ out.err = NoErr => response'[p].Choices = out.Choices]_vars

\* C11: a call waits for the backend with its copy while ClearConversation has emptied
\* the log of its conversation
C11_Witness ==
  \E p \in Procs :
    /\ pc[p] = "send_wait"
    /\ cleared[p]
    /\ Len(snapshot[p]) > 1
    /\ heap[conv[p]].Messages # snapshot[p]
    /\ Positions(conv[p], p, "user") = {}

\* C12: every SendMessage call is served by one backend: the reference it dispatches on
\* is a whole backend, it keeps that reference until the backend has answered whatever
\* SetBackend does meanwhile, and when the backend was not swapped since the call last
\* synchronised the reference is the controller's current backend
C12_OneBackendPerCall ==
  [][\A p \in Procs :
       /\ pc'[p] = "send_wait" => bref'[p] \in Backends
       /\ (pc[p] = "send_wait" /\ pc'[p] = "send_wait") => bref'[p] = bref[p]
       /\ (pc[p] = "send_call" /\ pc'[p] = "send_wait" /\ raced[p] = {backend})
          => bref'[p] = backend]_vars

\* C13: GetBackend returns a whole backend, the one given at construction or one passed
\* to SetBackend; the reference changes only in a SetBackend step, taken while no
\* goroutine holds the mutex as reader or writer, and after SetBackend(b) GetBackend
\* returns b until the next SetBackend
C13_BackendSwappedWhole ==
  [][/\ GetBackendResult' \in Backends
     /\ \A b \in Backends : SetBackend(b) => GetBackendResult' = b
     /\ GetBackendResult' # GetBackendResult
        => /\ LockFree
           /\ SetBackend(GetBackendResult')]_vars

\* C13: a call that dispatched on one backend has returned after SetBackend installed
\* the other, which GetBackend now returns
C13_Witness ==
  \E p \in Procs :
    /\ pc[p] = "ret"
    /\ bref[p] \in Backends
    /\ GetBackendResult \in Backends \ {bref[p]}
    /\ writer = NoProc

\* C14: a ClearConversation step on a present id leaves in the log exactly the system
\* messages that were there, in their order, and nothing of another role, sets
\* updatedAt to the clock reading of the call, not earlier than the old value, and
\* changes no other conversation and not the collection; on an absent id it returns the
\* not-found error and changes nothing
C14_ClearKeepsSystemMessages ==
  [][\A id \in KnownIDs : \A t \in Clock :
       ClearConversation(id, t)
       => IF id \in DOMAIN conversations
          THEN /\ ClearConversationResult(id) = NoErr
               /\ \A i \in DOMAIN heap'[conversations[id]].Messages :
                    heap'[conversations[id]].Messages[i].Role = "system"
               /\ heap'[conversations[id]].Messages =
                    SelectSeq(heap[conversations[id]].Messages,
                              LAMBDA m : m.Role = "system")
               /\ heap'[conversations[id]].UpdatedAt = t
               /\ heap'[conversations[id]].UpdatedAt >= heap[conversations[id]].UpdatedAt
               /\ heap'[conversations[id]].UpdatedAt = now'
               /\ heap'[conversations[id]].ID = id
               /\ heap'[conversations[id]].CreatedAt = heap[conversations[id]].CreatedAt
               /\ \A h \in DOMAIN heap : h # conversations[id] => heap'[h] = heap[h]
               /\ conversations' = conversations
          ELSE /\ ClearConversationResult(id) =
                    "conversation " \o id \o " not found"
               /\ UNCHANGED vars]_vars

\* C14: ClearConversation at a later clock reading has removed the user message of a
\* call in flight from a log that keeps its system message
C14_Witness ==
  \E p \in Procs :
    /\ cleared[p]
    /\ Len(snapshot[p]) > 1
    /\ snapshot[p][1].Role = "system"
    /\ heap[conv[p]].Messages = <<snapshot[p][1]>>
    /\ heap[conv[p]].UpdatedAt > heap[conv[p]].CreatedAt

\* C15: a DeleteConversation step on a present id removes that id from the collection
\* and nothing else, leaves every other conversation and every log as it was, and
\* afterwards GetConversation(id) returns the not-found error and ListConversations does
\* not contain the conversation; on an absent id, a deleted one included, it returns the
\* not-found error and changes nothing
C15_DeleteRemovesExactlyOne ==
  [][\A id \in KnownIDs :
       DeleteConversation(id)
       => IF id \in DOMAIN conversations
          THEN /\ DeleteConversationResult(id) = NoErr
               /\ DOMAIN conversations' = DOMAIN conversations \ {id}
               /\ \A other \in DOMAIN conversations' :
                    conversations'[other] = conversations[other]
               /\ heap' = heap
               /\ backend' = backend
               /\ GetConversationResult(id)' =
                    [conversation |-> NoConv,
                     err |-> "conversation " \o id \o " not found"]
               /\ conversations[id] \notin ListConversationsResult'
               /\ ListConversationsResult' = ListConversationsResult \ {conversations[id]}
          ELSE /\ DeleteConversationResult(id) =
                    "conversation " \o id \o " not found"
               /\ UNCHANGED vars]_vars

\* C15: a conversation has been deleted and is absent while another one is in the
\* collection, so that a second delete of the same id is possible
C15_Witness ==
  /\ \E id \in deleted : /\ id \notin DOMAIN conversations
                         /\ ENABLED DeleteConversation(id)
  /\ \E other \in DOMAIN conversations : other \notin deleted

\* C16: a step of GetConversation, ListConversations, GetConversationSummary, GetStats
\* or GetBackend changes neither the membership of the collection nor any conversation
\* (messages, createdAt, updatedAt) nor the backend reference, and leaves the lock as
\* it found it
C16_ReadsChangeNothing ==
  [][(\/ ListConversations
      \/ GetBackend
      \/ GetStats
      \/ \E id \in KnownIDs : GetConversation(id) \/ GetConversationSummary(id))
     => /\ DOMAIN conversations' = DOMAIN conversations
        /\ \A id \in DOMAIN conversations :
             /\ conversations'[id] = conversations[id]
             /\ heap'[conversations[id]].Messages = heap[conversations[id]].Messages
             /\ heap'[conversations[id]].CreatedAt = heap[conversations[id]].CreatedAt
             /\ heap'[conversations[id]].UpdatedAt = heap[conversations[id]].UpdatedAt
        /\ heap' = heap
        /\ backend' = backend
        /\ UNCHANGED <<writer, readers>>]_vars

\* C16: the reads can run on a collection that holds a conversation with a user message
\* and its reply, while a deleted id is around to be asked for
C16_Witness ==
  /\ ENABLED ListConversations
  /\ ENABLED GetBackend
  /\ ENABLED GetStats
  /\ \E id \in DOMAIN conversations :
       /\ ENABLED GetConversation(id)
       /\ ENABLED GetConversationSummary(id)
       /\ ConversationSummary(heap[conversations[id]]).UserMessages >= 1
       /\ ConversationSummary(heap[conversations[id]]).AssistantMessages >= 1
  /\ GetStatsResult.TotalMessages >= 2

\* C17: in every reachable state every conversation has updatedAt >= createdAt; no step
\* changes a conversation's createdAt; every append of a user or an assistant message
\* and every clear sets updatedAt to the clock reading it takes, which is not earlier
\* than the value it replaces, and no other step changes updatedAt
C17_UpdatedAtNeverBehind ==
  /\ [](\A h \in DOMAIN heap : heap[h].UpdatedAt >= heap[h].CreatedAt)
  /\ [][/\ \A h \in DOMAIN heap :
             /\ heap'[h].CreatedAt = heap[h].CreatedAt
             /\ heap'[h].UpdatedAt >= heap[h].UpdatedAt
             /\ heap'[h].UpdatedAt # heap[h].UpdatedAt => heap'[h].UpdatedAt = now'
        /\ \A p \in Procs : \A t \in Clock :
             (SendAppendUser(p, t) \/ SendAppendReply(p, t))
             => /\ heap'[conv[p]].UpdatedAt = t
                /\ t >= heap[conv[p]].UpdatedAt
                /\ t >= heap[conv[p]].CreatedAt
        /\ \A id \in DOMAIN conversations : \A t \in Clock :
             ClearConversation(id, t)
             => /\ heap'[conversations[id]].UpdatedAt = t
                /\ t >= heap[conversations[id]].UpdatedAt]_vars

\* C17: a conversation created at one clock reading has had its reply appended at a
\* later one
C17_Witness ==
  \E h \in DOMAIN heap :
    /\ heap[h].UpdatedAt > heap[h].CreatedAt
    /\ Len(heap[h].Messages) >= 2
    /\ heap[h].Messages[Len(heap[h].Messages)].Role = "assistant"

\* C18: when no writer holds the mutex, the summary of every conversation of the
\* collection reports as MessageCount the length of the log GetConversation gives, and
\* as UserMessages, AssistantMessages and SystemMessages the number of messages of the
\* log with that role; for a log of one system message and two user messages each
\* followed by its reply that is 1, 2, 2 and 5
C18_SummaryCountsMatchLog ==
  CanRLock =>
    \A id \in DOMAIN conversations :
      LET log == heap[GetConversationResult(id).conversation].Messages
          sum == GetConversationSummaryResult(id)
          Of(role) == Cardinality({i \in DOMAIN log : log[i].Role = role})
      IN /\ sum.err = NoErr
         /\ sum.summary.ID = id
         /\ sum.summary.MessageCount = Len(log)
         /\ sum.summary.UserMessages = Of("user")
         /\ sum.summary.AssistantMessages = Of("assistant")
         /\ sum.summary.SystemMessages = Of("system")
         /\ [i \in DOMAIN log |-> log[i].Role] =
              <<"system", "user", "assistant", "user", "assistant">>
            => /\ sum.summary.SystemMessages = 1
               /\ sum.summary.UserMessages = 2
               /\ sum.summary.AssistantMessages = 2
               /\ sum.summary.MessageCount = 5

\* C18: with every call returned and the mutex free, a conversation created with a
\* system prompt holds two user messages, each followed by its reply
C18_Witness ==
  /\ LockFree
  /\ \A p \in Procs : pc[p] \in {"ret", "done"}
  /\ \E id \in DOMAIN conversations :
       /\ ENABLED GetConversationSummary(id)
       /\ [i \in DOMAIN heap[conversations[id]].Messages |->
             heap[conversations[id]].Messages[i].Role] =
            <<"system", "user", "assistant", "user", "assistant">>

RECURSIVE CeilTokens(_)
\* the sum over the messages of the length of the content divided by four, rounded up
CeilTokens(msgs) ==
  IF msgs = <<>> THEN 0
  ELSE ((Len(Head(msgs).Content) + 3) \div 4) + CeilTokens(Tail(msgs))

\* C19: the token estimate of the summary of every conversation of the collection is the
\* sum over its messages of ceil(length(content) / 4)
C19_TokenEstimateIsCeilSum ==
  CanRLock =>
    \A id \in DOMAIN conversations :
      GetConversationSummaryResult(id).summary.EstimatedTokens =
        CeilTokens(heap[conversations[id]].Messages)

\* C20: when every goroutine has created its own conversation with a system prompt and
\* each of its SendsEach calls has returned, every conversation holds 1 + 2 * SendsEach
\* messages, the system message first and then each user message followed by its reply,
\* GetStats reports as many conversations as goroutines, and its TotalMessages is the
\* sum of the conversations' message counts, goroutines * (1 + 2 * SendsEach)
C20_ConcurrentOwnConversations ==
  (/\ Len(heap) = Cardinality(Procs)
   /\ \A p \in Procs : sent[p] = SendsEach)
  => /\ \A id \in DOMAIN conversations :
          /\ Len(heap[conversations[id]].Messages) = 1 + 2 * SendsEach
          /\ heap[conversations[id]].Messages[1].Role = "system"
          /\ \A k \in 1..SendsEach :
               /\ heap[conversations[id]].Messages[2 * k].Role = "user"
               /\ heap[conversations[id]].Messages[2 * k + 1].Role = "assistant"
     /\ \A p \in Procs : \A i \in DOMAIN heap[p].Messages :
          heap[p].Messages[i].call \in {0, p}
     /\ GetStatsResult.TotalConversations = Cardinality(Procs)
     /\ GetStatsResult.TotalMessages = Cardinality(Procs) * (1 + 2 * SendsEach)
     /\ \A ids \in SUBSET DOMAIN conversations :
          Cardinality(ids) = 1 =>
            GetStatsResult.TotalMessages =
              TotalMessages(ids) + TotalMessages(DOMAIN conversations \ ids)

\* C20: every goroutine has its own conversation and has had all its calls returned,
\* and GetStats can run
C20_Witness ==
  /\ Len(heap) = Cardinality(Procs)
  /\ Cardinality(DOMAIN conversations) = Cardinality(Procs)
  /\ \A p \in Procs : sent[p] = SendsEach /\ pc[p] = "done"
  /\ ENABLED GetStats

\* C21: what ListConversations returns is the set of the conversations created and not
\* deleted: a creation adds the new conversation to it and takes none away, the deletion
\* of a present id takes away the conversation of that id and no other, and no other step
\* changes it
C21_ListIsCreatedMinusDeleted ==
  [][/\ Len(heap') > Len(heap)
        => ListConversationsResult' = ListConversationsResult \cup {Len(heap')}
     /\ \A id \in DOMAIN conversations :
          DeleteConversation(id)
          => ListConversationsResult' = ListConversationsResult \ {conversations[id]}
     /\ (/\ Len(heap') = Len(heap)
         /\ ~ \E id \in DOMAIN conversations : DeleteConversation(id))
        => ListConversationsResult' = ListConversationsResult]_vars

\* C22: in a step that is not a ClearConversation of that conversation, the log of every
\* conversation before the step is a prefix of its log after the step: messages are
\* only added at the end, none is changed, taken out or moved
C22_LogAppendOnlyExceptClear ==
  [][\A h \in DOMAIN heap :
       (~ \E id \in DOMAIN conversations, t \in Clock :
            conversations[id] = h /\ ClearConversation(id, t))
       => /\ Len(heap'[h].Messages) >= Len(heap[h].Messages)
          /\ SubSeq(heap'[h].Messages, 1, Len(heap[h].Messages)) = heap[h].Messages]_vars

\* C22: a call that found messages in its conversation has returned with success, and
\* the log has grown beyond what the call found
C22_Witness ==
  \E p \in Procs :
    /\ pc[p] = "ret"
    /\ result[p].err = NoErr
    /\ startMsgs[p] # <<>>
    /\ Len(heap[conv[p]].Messages) >= Len(startMsgs[p]) + 2
    /\ heap[conv[p]].Messages[Len(startMsgs[p]) + 1].Role = "user"

C24_ChangesUnderExclusiveLock ==
  /\ [](writer # NoProc => readers = {})
  /\ [](writer \in Procs => pc[writer] \in {"send_create", "send_user", "send_asst"})
  /\ [][(\/ conversations' # conversations
         \/ heap' # heap)
        => \/ /\ writer = NoProc
              /\ readers = {}
              /\ writer' = NoProc
              /\ readers' = {}
              /\ pc' = pc
           \/ /\ writer \in Procs
              /\ readers = {}
              /\ pc[writer] \in {"send_create", "send_user", "send_asst"}
              /\ pc'[writer] # pc[writer]
              /\ \A q \in Procs \ {writer} : pc'[q] = pc[q]
              /\ writer' = NoProc]_vars

\* C24: a call holds the exclusive lock for its append while the other call, which has
\* resolved the same conversation, waits for the lock
C24_Witness ==
  \E p, q \in Procs :
    /\ p # q
    /\ writer = p
    /\ pc[p] = "send_asst"
    /\ pc[q] = "send_prep"
    /\ conv[q] = conv[p]
    /\ ~ ENABLED SendLockUser(q)

\* C25: a SendMessage call with an empty conversation id allocates one conversation, in
\* one step and in no other, puts it in the collection under its id, with one system
\* message of request.SystemPrompt when that is non-empty and with no message otherwise,
\* and keeps it as its conversation; the response carries the id of that conversation;
\* when the call succeeds and no other goroutine wrote to the conversation, the log is
\* the optional system message, the user message and the first choice. A call with an id
\* allocates nothing, its lookup changes no conversation whatever request.SystemPrompt
\* is, and when it succeeds alone the log has the system messages it found, and no more
C25_EmptyIdCreatesOneConversation ==
  [][\A p \in Procs :
       /\ (pc[p] = "send_create" /\ pc'[p] # "send_create")
          => /\ req[p].ConversationID = NoID
             /\ Len(heap') = Len(heap) + 1
             /\ conv'[p] = Len(heap')
             /\ conversations'[heap'[conv'[p]].ID] = conv'[p]
             /\ \A h \in DOMAIN heap : heap'[h] = heap[h]
             /\ heap'[conv'[p]].Messages =
                  IF req[p].SystemPrompt # ""
                  THEN <<[Role |-> "system", Content |-> req[p].SystemPrompt, call |-> 0]>>
                  ELSE <<>>
       /\ (pc[p] # "send_create" /\ pc'[p] # pc[p] /\ pc[p] # "idle")
          => Len(heap') = Len(heap)
       /\ (pc[p] \in {"send_prep", "send_user", "send_call", "send_wait", "send_reply",
                      "send_asst"}
           /\ pc'[p] \notin {"panic", "done"})
          => /\ conv'[p] = conv[p]
             /\ req'[p].ConversationID = req[p].ConversationID
       /\ (pc'[p] = "ret" /\ req'[p].ConversationID = NoID)
          => /\ ~result'[p].nil
             /\ result'[p].ConversationID = heap'[conv'[p]].ID
             /\ (result'[p].err = NoErr /\ ~touched'[p])
                => \/ heap'[conv'[p]].Messages =
                        <<[Role |-> "user", Content |-> req'[p].Message, call |-> p],
                          [response'[p].Choices[1] EXCEPT !.call = p]>>
                   \/ /\ Len(heap'[conv'[p]].Messages) = 3
                      /\ heap'[conv'[p]].Messages[1].Role = "system"
                      /\ SubSeq(heap'[conv'[p]].Messages, 2, 3) =
                           <<[Role |-> "user", Content |-> req'[p].Message, call |-> p],
                             [response'[p].Choices[1] EXCEPT !.call = p]>>
       /\ (pc[p] = "send_get" /\ pc'[p] # "send_get")
          => /\ req[p].ConversationID # NoID
             /\ heap' = heap
             /\ conversations' = conversations
       /\ (pc'[p] = "ret" /\ req'[p].ConversationID # NoID /\ ~result'[p].nil
           /\ result'[p].err = NoErr /\ ~touched'[p])
          => Cardinality({i \in DOMAIN heap'[conv'[p]].Messages :
                            heap'[conv'[p]].Messages[i].Role = "system"})
             = Cardinality({i \in DOMAIN startMsgs'[p] : startMsgs'[p][i].Role = "system"})]_vars

\* C25: a call with an empty id and a system prompt has returned with success, alone in
\* the conversation it created
C25_Witness ==
  \E p \in Procs :
    /\ pc[p] = "ret"
    /\ result[p].err = NoErr
    /\ req[p].ConversationID = NoID
    /\ ~touched[p]
    /\ result[p].ConversationID \in DOMAIN conversations
    /\ Len(heap[conv[p]].Messages) = 3
    /\ heap[conv[p]].Messages[1].Content = "You are helpful"

\* C26: a call whose backend returned one or more choices appends, in its second
\* critical section, one message to the log, the message of the first choice, and
\* returns that message and the whole completion in its response; no step of such a
\* call appends anything else, and in no state does a log hold the message of a choice
\* that was not the first of its list
C26_OnlyFirstChoiceStored ==
  /\ [](\A h \in DOMAIN heap : \A i \in DOMAIN heap[h].Messages :
          \A ch \in OpenAIChoices : \A k \in 2..Len(ch) :
            heap[h].Messages[i].Content # ch[k].Content)
  /\ [][\A p \in Procs :
          /\ (pc[p] = "send_asst" /\ pc'[p] # "send_asst")
             => /\ Len(response[p].Choices) >= 1
                /\ Len(heap'[conv[p]].Messages) = Len(heap[conv[p]].Messages) + 1
                /\ SubSeq(heap'[conv[p]].Messages, 1, Len(heap[conv[p]].Messages))
                     = heap[conv[p]].Messages
                /\ heap'[conv[p]].Messages[Len(heap'[conv[p]].Messages)].Role
                     = response[p].Choices[1].Role
                /\ heap'[conv[p]].Messages[Len(heap'[conv[p]].Messages)].Content
                     = response[p].Choices[1].Content
                /\ pc'[p] = "ret"
                /\ result'[p].err = NoErr
                /\ result'[p].Message.Role = response[p].Choices[1].Role
                /\ result'[p].Message.Content = response[p].Choices[1].Content
                /\ result'[p].Response = response[p]
          /\ (pc[p] \in {"send_wait", "send_reply"} /\ pc'[p] # pc[p])
             => heap' = heap
          /\ (pc[p] = "send_wait" /\ pc'[p] \in {"send_reply", "ret"})
             => (pc'[p] = "send_reply"
                 <=> (err'[p] = NoErr /\ Len(response'[p].Choices) >= 1))]_vars

\* C26: a call whose backend returned two choices has returned with success
C26_Witness ==
  \E p \in Procs :
    /\ pc[p] = "ret"
    /\ result[p].err = NoErr
    /\ Len(result[p].Response.Choices) = 2
    /\ result[p].Response.Choices[2].Content # result[p].Message.Content
    /\ \E i \in DOMAIN heap[conv[p]].Messages :
         heap[conv[p]].Messages[i].Content = result[p].Message.Content

\* C27: a SendMessage call that returns has invoked the completion of the backend once
\* when its conversation was resolved or created, whether the backend answered with an
\* error, with no choice or with choices, and not at all when the lookup of its
\* conversation failed; the invocation is made in the dispatch step, and from the wait
\* for the backend the call goes on to its return or to its second critical section,
\* never back to a dispatch
C27_BackendInvokedOncePerCall ==
  /\ [](\A p \in Procs :
          /\ pc[p] \in {"idle", "done", "send_get", "send_create", "send_prep",
                        "send_user", "send_call"} => calls[p] = 0
          /\ pc[p] \in {"send_wait", "send_reply", "send_asst"} => calls[p] = 1
          /\ pc[p] = "ret"
             => calls[p] = IF result[p].nil THEN 0 ELSE 1)
  /\ [][\A p \in Procs :
          /\ calls'[p] > calls[p] => (pc[p] = "send_call" /\ pc'[p] = "send_wait")
          /\ (pc[p] = "send_get" /\ pc'[p] = "ret")
             => /\ req[p].ConversationID \notin DOMAIN conversations
                /\ result'[p].nil
          /\ (pc[p] = "send_wait" /\ pc'[p] # pc[p])
             => pc'[p] \in {"ret", "send_reply", "panic"}
          /\ (pc[p] \in {"send_reply", "send_asst"} /\ pc'[p] # pc[p])
             => pc'[p] \in {"send_asst", "ret"}]_vars

\* C27: one call has returned the error of its backend, and another the not-found error
\* of its lookup
C27_Witness ==
  \E p, q \in Procs :
    /\ pc[p] = "ret" /\ ~result[p].nil /\ result[p].err # NoErr /\ calls[p] = 1
    /\ pc[q] = "ret" /\ result[q].nil /\ calls[q] = 0

\* C28: whether or not IsAvailable would report true, a call that has its conversation
\* can take the lock when it is free, append its user message and invoke the completion;
\* when the completion ends on a backend that is not available, the call returns the
\* error of the completion, with a response that carries it and the user message, and no
\* step of the call other than the completion differs with the reach of the provider
C28_AvailabilityNeverGates ==
  /\ [](\A p \in Procs :
          /\ (pc[p] = "send_prep" /\ writer = NoProc /\ readers = {})
             => ENABLED SendLockUser(p)
          /\ pc[p] = "send_user" => ENABLED SendAppendUser(p, now)
          /\ pc[p] = "send_call" => ENABLED SendDispatch(p))
  /\ [][\A p \in Procs :
          /\ (pc[p] = "send_user" /\ pc'[p] = "send_call")
             => heap'[conv[p]].Messages[Len(heap'[conv[p]].Messages)]
                  = [Role |-> "user", Content |-> req[p].Message, call |-> p]
          /\ (pc[p] = "send_call" /\ pc'[p] = "send_wait") => calls'[p] = 1
          /\ (pc[p] = "send_wait" /\ pc'[p] \in {"ret", "send_reply"}
              /\ bref[p] \in Backends /\ ~IsAvailable(bref[p], ctx[p]))
             => /\ pc'[p] = "ret"
                /\ err'[p] # NoErr
                /\ ~result'[p].nil
                /\ result'[p].err = err'[p]
                /\ result'[p].Error = err'[p]
                /\ result'[p].Message.Content = req[p].Message
                /\ heap' = heap]_vars

\* C28: with the provider out of reach and IsBackendAvailable reporting false, a call
\* has appended its user message and come back with the error of the completion
C28_Witness ==
  \E p \in Procs :
    /\ ~reachable
    /\ ~IsBackendAvailableResult("live")
    /\ pc[p] = "ret"
    /\ result[p].err = "failed to send request: connection refused"
    /\ Len(heap[conv[p]].Messages) >= 1
    /\ heap[conv[p]].Messages[Len(heap[conv[p]].Messages)].call = p

\* C29: the completion request of a call carries the request's model when that is not
\* empty and the controller's default model otherwise, the request's maxTokens when the
\* pointer is not nil (a pointer to zero included) and the controller's maxTokens
\* otherwise, and likewise for temperature, with the call's copy of the log as messages;
\* the provider's backend refuses the request for want of a model exactly when both the
\* request's model and the default are empty; and no step of the call changes the three
\* fields of the request or the controller's defaults
C29_RequestOverridesElseDefaults ==
  /\ [](\A p \in Procs :
          pc[p] \in {"send_call", "send_wait"}
          => /\ req[p].Model # "" => AIRequest(p).Model = req[p].Model
             /\ req[p].Model = "" => AIRequest(p).Model = config.DefaultModel
             /\ Len(req[p].MaxTokens) = 1 => AIRequest(p).MaxTokens = req[p].MaxTokens
             /\ Len(req[p].MaxTokens) = 0 => AIRequest(p).MaxTokens = <<config.MaxTokens>>
             /\ Len(req[p].Temperature) = 1
                => AIRequest(p).Temperature = req[p].Temperature
             /\ Len(req[p].Temperature) = 0
                => AIRequest(p).Temperature = <<config.Temperature>>
             /\ AIRequest(p).Messages = snapshot[p])
  /\ [][/\ config' = config
        /\ \A p \in Procs :
             /\ (pc[p] \notin {"idle", "done"} /\ pc'[p] \notin {"done", "panic"})
                => /\ req'[p].Model = req[p].Model
                   /\ req'[p].MaxTokens = req[p].MaxTokens
                   /\ req'[p].Temperature = req[p].Temperature
             /\ (pc[p] = "send_wait" /\ pc'[p] # pc[p] /\ bref[p] = "OpenAI")
                => (err'[p] = "model is required"
                    <=> (req[p].Model = "" /\ config.DefaultModel = ""))]_vars

\* C29: a call waits for the backend with a model and a maxTokens of zero of its own and
\* no temperature, on a controller built with the default configuration
C29_Witness ==
  \E p \in Procs :
    /\ pc[p] = "send_wait"
    /\ config = DefaultConfig
    /\ req[p].Model = "gpt-3.5-turbo"
    /\ req[p].MaxTokens = PtrTo(0)
    /\ req[p].Temperature = NilPtr
    /\ AIRequest(p).Model = "gpt-3.5-turbo"
    /\ AIRequest(p).MaxTokens = PtrTo(0)
    /\ AIRequest(p).Temperature = PtrTo(7)

\* C30: right after a CreateConversation step the new conversation is in the collection
\* under its id, its log is empty when the system prompt is empty and otherwise the one
\* system message with the prompt as content, and its createdAt equals its updatedAt
C30_CreatedEqualsUpdatedAtCreation ==
  [][\A sp \in SystemPrompts : \A nano, t1, t2 \in Clock :
       CreateConversation(sp, nano, t1, t2)
       => /\ Len(heap') = Len(heap) + 1
          /\ heap'[Len(heap')].ID \in DOMAIN conversations'
          /\ conversations'[heap'[Len(heap')].ID] = Len(heap')
          /\ sp = "" => heap'[Len(heap')].Messages = <<>>
          /\ sp # "" => /\ Len(heap'[Len(heap')].Messages) = 1
                        /\ heap'[Len(heap')].Messages[1].Role = "system"
                        /\ heap'[Len(heap')].Messages[1].Content = sp
          /\ heap'[Len(heap')].CreatedAt = heap'[Len(heap')].UpdatedAt]_vars

\* C31: when no writer holds the mutex, the summary of every conversation of the
\* collection reports as LastUserMessage the content of the message of role user with the
\* highest index in the log, and the empty string when the log has no message of that
\* role; likewise LastAssistantMessage for the role assistant
C31_SummaryReportsLastOfRole ==
  CanRLock =>
    \A id \in DOMAIN conversations :
      LET log == heap[GetConversationResult(id).conversation].Messages
          sum == GetConversationSummaryResult(id).summary
          Of(role) == {i \in DOMAIN log : log[i].Role = role}
          Last(role) ==
            IF Of(role) = {} THEN ""
            ELSE log[CHOOSE i \in Of(role) : \A j \in Of(role) : j <= i].Content
      IN /\ sum.LastUserMessage = Last("user")
         /\ sum.LastAssistantMessage = Last("assistant")

\* C31: a conversation of the collection holds a user message and two replies of
\* different content, the summary can be taken and reports the later reply and the
\* user's text
C31_Witness ==
  /\ CanRLock
  /\ \E id \in DOMAIN conversations :
       LET log == heap[conversations[id]].Messages
       IN /\ ENABLED GetConversationSummary(id)
          /\ \E i, j \in DOMAIN log :
               /\ i < j
               /\ log[i].Role = "assistant"
               /\ log[j].Role = "assistant"
               /\ log[i].Content # log[j].Content
               /\ \A k \in DOMAIN log : k > j => log[k].Role # "assistant"
               /\ GetConversationSummaryResult(id).summary.LastAssistantMessage
                    = log[j].Content
          /\ GetConversationSummaryResult(id).summary.LastUserMessage = "Hello"

\* C32: the completion of the mock backend, called with a context that is cancelled or
\* past its deadline before the simulated delay is over, returns the error of the context
\* (Canceled or DeadlineExceeded) and no response; called with a context that stays live
\* it returns no error and a response with one choice, of role assistant, and a usage
\* whose totalTokens is the sum of promptTokens and completionTokens; in both cases it
\* has one outcome
C32_MockCompletionHonoursContext ==
  \A p \in Procs :
    (pc[p] = "send_wait" /\ bref[p] = "MockAI")
    => /\ Cardinality(ChatCompletion(bref[p], ctx[p], AIRequest(p))) = 1
       /\ \A out \in ChatCompletion(bref[p], ctx[p], AIRequest(p)) :
            IF ctx[p] # "live"
            THEN /\ out.nil
                 /\ out.Choices = <<>>
                 /\ ctx[p] = "canceled" => out.err = "context canceled"
                 /\ ctx[p] = "deadline" => out.err = "context deadline exceeded"
            ELSE /\ ~out.nil
                 /\ out.err = NoErr
                 /\ Len(out.Choices) = 1
                 /\ out.Choices[1].Role = "assistant"
                 /\ out.Usage.TotalTokens
                      = out.Usage.PromptTokens + out.Usage.CompletionTokens

\* C32: two calls wait for the mock backend, one with a context whose deadline has
\* passed, the other with a live context and a request whose usage counts tokens on both
\* sides
C32_Witness ==
  \E p, q \in Procs :
    /\ pc[p] = "send_wait" /\ bref[p] = "MockAI" /\ ctx[p] = "deadline"
    /\ pc[q] = "send_wait" /\ bref[q] = "MockAI" /\ ctx[q] = "live"
    /\ \E out \in ChatCompletion(bref[q], ctx[q], AIRequest(q)) :
         /\ out.Usage.PromptTokens > 0
         /\ out.Usage.CompletionTokens > 0
         /\ out.Usage.TotalTokens > out.Usage.PromptTokens

\* C33: a step that creates a conversation, by CreateConversation or inside SendMessage,
\* makes the collection one conversation larger and leaves every conversation that was
\* in it in place, under its id
C33_CreateReplacesNothing ==
  [][Len(heap') > Len(heap)
     => /\ Cardinality(DOMAIN conversations') = Cardinality(DOMAIN conversations) + 1
        /\ \A id \in DOMAIN conversations :
             /\ id \in DOMAIN conversations'
             /\ conversations'[id] = conversations[id]]_vars

\* C34: a step of a SendMessage call that appends a message to the call's conversation
\* is taken only while that conversation is in the collection, and a call returns
\* success only for a conversation that is in the collection
C34_NoAppendAfterDelete ==
  [][\A p \in Procs :
       /\ (conv[p] # NoConv /\ heap'[conv[p]].Messages # heap[conv[p]].Messages
           /\ pc'[p] # pc[p])
          => \E id \in DOMAIN conversations : conversations[id] = conv[p]
       /\ (pc[p] # "ret" /\ pc'[p] = "ret" /\ ~result'[p].nil /\ result'[p].err = NoErr)
          => \E id \in DOMAIN conversations : conversations[id] = conv[p]]_vars

\* C35: the step in which a SendMessage call reads the controller's backend reference to
\* dispatch the completion is taken while the call holds the mutex, shared or exclusive,
\* so that the reference read is the one the controller holds and no write of SetBackend
\* lies between the call's last synchronisation and the read
C35_BackendReadUnderLock ==
  [][\A p \in Procs :
       (pc[p] = "send_call" /\ pc'[p] = "send_wait")
       => /\ (writer = p \/ p \in readers)
          /\ bref'[p] = backend
          /\ raced[p] = {backend}]_vars

\* C36: in every state the log of every conversation has no more messages of role
\* assistant than of role user, and before every message of role assistant it has a
\* message of role user
C36_AssistantsNeverOutnumberUsers ==
  \A h \in DOMAIN heap :
    LET log == heap[h].Messages
    IN /\ CountRole(log, "assistant") <= CountRole(log, "user")
       /\ \A i \in DOMAIN log :
            log[i].Role = "assistant" => \E j \in 1..(i - 1) : log[j].Role = "user"

\* C37: a goroutine that is about to take the mutex holds it in no mode, a goroutine
\* inside a critical section holds it in the mode of that section only, and one that has
\* returned (with a result or an error) holds nothing; and under the scheduling of the
\* liveness specification every SendMessage call that has started comes to its end (its
\* return, or the panic of a backend call that does not return) and every
\* GetConversationSummary call that has started returns
C37_EveryOperationCompletes ==
  /\ [](\A p \in Procs :
          /\ pc[p] \in {"idle", "send_prep", "send_call", "send_wait", "send_reply",
                        "ret", "done", "panic"}
             => (writer # p /\ p \notin readers)
          /\ pc[p] = "send_get" => (writer # p /\ p \in readers)
          /\ pc[p] \in {"send_create", "send_user", "send_asst"}
             => (writer = p /\ readers = {}))
  /\ [](/\ writer # Summarizer
        /\ summary.pc \in {"idle", "sum_call", "sum_gap", "sum_ret"}
           => Summarizer \notin readers
        /\ summary.pc \in {"sum_get", "sum_agg"} => Summarizer \in readers)
  /\ \A p \in Procs :
       (pc[p] \notin {"idle", "done", "panic"}) ~> (pc[p] \in {"done", "panic"})
  /\ (summary.pc # "idle") ~> (summary.pc = "idle")

\* C37: the summary call, between its two read sections, waits for the mutex that the
\* SendMessage call holds for its reply
C37_Witness ==
  /\ summary.pc = "sum_gap"
  /\ pc[1] = "send_asst"
  /\ writer = 1
  /\ ~ ENABLED SummaryRLock

\* C38: the aggregation of a GetConversationSummary call works on the state its lookup
\* saw: in the step that builds the summary the id of the call is still in the collection
\* and names the conversation the lookup returned, so that the summary returned is that
\* of a conversation of the collection, with its messages and updatedAt of that instant
C38_SummaryLookupAndAggregationAgree ==
  [][(summary.pc = "sum_agg" /\ summary'.pc = "sum_ret")
     => /\ ~summary'.result.nil
        /\ GetConversationResult(summary.id).err = NoErr
        /\ GetConversationResult(summary.id).conversation = summary.conversation
        /\ summary'.result = GetConversationSummaryResult(summary.id)]_vars

\* C39: after a ClearConversation step on a conversation of the collection, the loop of
\* ClearConversation run on the messages it left gives these messages again, so that a
\* second clear with no operation in between leaves them as they are; and the clear of a
\* log that holds only system messages, or none, leaves the messages unchanged
C39_ClearIsIdempotent ==
  [][\A id \in DOMAIN conversations : \A t \in Clock :
       ClearConversation(id, t)
       => LET before == heap[conversations[id]].Messages
              after == heap'[conversations[id]].Messages
          IN /\ SystemMessages(after) = after
             /\ (\A i \in DOMAIN before : before[i].Role = "system") => after = before
             /\ (\A i \in DOMAIN after : after[i].Role = "system")]_vars

\* C39: a conversation of the collection holds its system message and nothing else after
\* a clear that found a user message and a reply, and can be cleared again
C39_Witness ==
  \E id \in DOMAIN conversations :
    /\ heap[conversations[id]].Messages = <<Message("system", "You are helpful", 0)>>
    /\ cleared[1]
    /\ conv[1] = conversations[id]
    /\ pc[1] = "ret"
    /\ result[1].err = NoErr
    /\ ENABLED ClearConversation(id, now)

====
